---------------------------- MODULE Spec2Model ----------------------------
(***************************************************************************)
(* Recording orchestration of the device-recording repository.             *)
(*                                                                         *)
(* Spec    : SecuritySystem (main.py) driving CameraRecorder and           *)
(*           RecordingManager from two caller threads (the Arduino         *)
(*           listener thread and the operator/main thread) plus one        *)
(*           capture worker thread per started recording.                  *)
(* CtlSpec : VideoDeviceRecordingController driving one                    *)
(*           VideoDeviceRecorder (FFmpeg subprocess).                      *)
(* RmSpec  : RecordingManager called from several threads, with the        *)
(*           statements of start_recording and stop_recording interleaved. *)
(* ListenSpec : ArduinoListener.listen reading lines and classifying them. *)
(* SSSpec  : SS.py, the variant built on grabacion.Grabacion.              *)
(* SerialSpec : the serial port feeding ArduinoListener.listen: the bytes  *)
(*           of a line arriving in pieces, readline() with its timeout.    *)
(***************************************************************************)
EXTENDS Integers, Sequences, FiniteSets, TLC

\* Number of capture worker threads that may be created in one run.
MaxThreads == 2

\* Zone keywords known to the listener that are configured in this run.
Zones == {"ENTRADA", "SALIDA"}

\* OpenCV camera indices of the detected devices.
Cameras == {0, 1}

\* The two contexts that call into CameraRecorder.
Callers == {"listener", "operator"}

Threads == 1..MaxThreads

\* Number of controllers created by record_cameras (one per selected device).
NumControllers == 2

Controllers == 1..NumControllers

\* Number of threads that call into one RecordingManager.
NumRmCallers == 2

RmCallers == 1..NumRmCallers

\* Longest line read from the serial port, in tokens.
MaxLineLen == 3

\* The pieces of text a line is made of: the markers and zone keywords the
\* listener looks for, in the spelling it looks for and in another case, and
\* other text.
Tokens == {"ALERTA:", "alerta:", "ENTRADA", "entrada", "SALIDA",
           "ESTACIONAMIENTO", "BODEGA", "alarmaActiva=0", "DESACTIVADO",
           "desactivado", "x"}

\* The non-empty lines readline().strip() can return.
Lines == UNION {[1..n -> Tokens] : n \in 1..MaxLineLen}

\* Longest line the device sends in SerialSpec, in tokens.
MaxWireLen == 2

\* The pieces a transmitted line is made of; "<invalid>" stands for bytes
\* that are not valid UTF-8.
WireTokens == {"ALERTA:", "ENTRADA", "DESACTIVADO", "x", "<invalid>"}

\* The lines the device sends (println appends the terminator).
WireLines == UNION {[1..n -> WireTokens] : n \in 1..MaxWireLen}

\* The video devices that can be plugged in.
DeviceNames == {"Integrated Webcam", "USB Camera"}

\* VideoDeviceDetection.MAX_CAMERA_INDEX: get_device_map tests the indices
\* 0 .. MAX_CAMERA_INDEX - 1.
MAX_CAMERA_INDEX == 3

\* The device maps get_device_map can return.
DeviceMaps ==
    {{<<idx, "Camera">> : idx \in S} : S \in SUBSET (0..(MAX_CAMERA_INDEX - 1))}

\* The sensor_to_camera dictionaries a configuration file can hold: some
\* zones, each with a camera index.
LoadedConfigs ==
    UNION {[D -> 0..MAX_CAMERA_INDEX] : D \in SUBSET Zones}

\* Number of clips a VideoFileRecorder is asked for.
MaxClips == 3

Clips == 1..MaxClips

\* The sensors an alert line can name (ArduinoListener.parse_alert_message).
AlertSensors == {"ENTRADA", "SALIDA", "ESTACIONAMIENTO", "BODEGA"}

\* Number of captures Grabacion opens.
MaxSessions == 3

\* Number of times the alarm-state variant starts its cameras.
MaxAlarmStarts == 3

\* The lines the alarm-state variant tells apart; "alarmaActiva=?" is an
\* alarmaActiva line with any other value, "otro" any other line.
AlarmMessages ==
    {"alarmaActiva=1", "alarmaActiva=0", "alarmaActiva=?", "Sistema DESACTIVADO", "otro"}

\* Zone-to-camera configurations: every zone on its own camera, or all zones
\* on the same camera.
Mappings == {[z \in Zones |-> IF z = "ENTRADA" THEN 0 ELSE 1],
             [z \in Zones |-> 0]}

VARIABLES
    SENSOR_TO_CAMERA,     \* SecuritySystem.SENSOR_TO_CAMERA : zone -> camera index
    capture_threads,      \* CameraRecorder.capture_threads : zone -> thread
    active_captures,      \* CameraRecorder.active_captures : zone -> capture (named by its thread)
    should_stop_capture,  \* CameraRecorder.should_stop_capture : zone -> bool
    writers,              \* RecordingManager.writers : source -> writer (named by its thread)
    tpc,                  \* position of each capture worker thread
    tSensor,              \* argument sensor of each worker
    tCam,                 \* argument camera_index of each worker
    capOpen,              \* the worker's cv.VideoCapture is opened and not released
    cpc,                  \* position of each caller thread
    srSensor,             \* start_recording: local sensor
    srThread,             \* start_recording: local thread
    report,               \* get_status_report: local active_recordings
    sig,                  \* per worker: phase in which a stop_all signalled it
    hadActive,            \* per caller: some zone was Active when its stop_all began
    consecStarts          \* per zone: start attempts in the current run of consecutive alerts

VARIABLES
    recorder_is_recording, \* VideoDeviceRecorder.is_recording, per controller
    process,               \* VideoDeviceRecorder.process: "None", or the state of its subprocess
    stop_event,            \* VideoDeviceRecordingController.stop_event
    rpc,                   \* position of the controller's recording_thread ("unborn": None)
    last_error,            \* VideoDeviceRecordingController.last_error
    joining                \* the controller whose thread the caller of stop() is joining (0: none)

VARIABLES
    recording_config,      \* RecordingManager.recording_config : source -> bool
    rmpc,                  \* position of each thread inside RecordingManager
    rmSrc,                 \* start_recording / stop_recording: argument source_name
    rmResult,              \* the value returned by the thread's last call
    rmFiles                \* output files the thread's current start_recording call created

rmVars == <<recording_config, rmpc, rmSrc, rmResult, rmFiles>>

VARIABLES
    arduino_opens,         \* number of serial.Serial(port, ...) connections opened
    linea,                 \* listen: the line read last
    event                  \* listen: what the line was dispatched as

lsnVars == <<arduino_opens, linea, event>>

VARIABLES
    estado_sensores,       \* SS.py estado_sensores : sensor -> "None" | "0" | "1"
    captures,              \* Grabacion.captures (and Grabacion.writers): camera indices
    hilo,                  \* SS.py: the thread running escuchar_arduino
    ss_last                \* SS.py: how the last line was handled

ssVars == <<estado_sensores, captures, hilo, ss_last>>

VARIABLES
    tx,                    \* bytes of the current line the device has not yet put on the wire
    rx,                    \* the serial port's input buffer (in_waiting = its length)
    sentLine               \* the line the device sent last

serVars == <<tx, rx, sentLine>>

VARIABLES
    attached,              \* the video devices plugged in right now
    cache,                 \* lru_cache of VideoDeviceDetection.get_devices: empty, or the one cached list
    scanned,               \* whether the last get_devices call ran FFmpeg
    devices                \* the list the last get_devices call returned, if any

detVars == <<attached, cache, scanned, devices>>

VARIABLES
    alert_rejected         \* main.py: why _on_sensor_alert last returned without starting

VARIABLES
    loaded_config,         \* the mapping last given to validate_config_with_devices
    device_map,            \* the device map last given to it: pairs <<index, name>>
    config_valid           \* what it returned ("None" before the first call)

cfgVars == <<loaded_config, device_map, config_valid>>

VARIABLES
    clip,                  \* per clip thread of VideoFileRecorder: "unborn", "running", "finished"
    active_threads,        \* VideoFileRecorder._active_threads
    wpc,                   \* where the caller of the recorder is: "idle" or inside wait_for_all_clips
    wi,                    \* wait_for_all_clips: position of the for loop in _active_threads
    before                 \* the clips created before the last wait_for_all_clips call

clipVars == <<clip, active_threads, wpc, wi, before>>

VARIABLES
    sec_estado_sensores,   \* SecuritySystem.py: self.estado_sensores
    sec_capture_threads,   \* SecuritySystem.py: self.capture_threads, the sensors with an entry
    sec_should_stop,       \* SecuritySystem.py: self.should_stop_capture
    sec_worker,            \* per sensor, the thread last started: "none", "open", "loop", "dead"
    sec_pc                 \* the listener of SecuritySystem.py: "idle" or inside stop_all_recordings

secVars == <<sec_estado_sensores, sec_capture_threads, sec_should_stop, sec_worker, sec_pc>>

VARIABLES
    grab_captures,         \* Grabacion.captures: camera index -> the capture opened for it
    grab_writers,          \* Grabacion.writers: camera index -> the writer of that session
    grab_opened,           \* how many captures Grabacion has opened so far
    grab_spc,              \* where the thread calling start_recording is (SS.py: hilo)
    grab_scam,             \* its cam_index
    grab_tpc,              \* where the thread calling stop_recording is (SS.py: main)
    grab_tcam              \* its cam_index

grabVars == <<grab_captures, grab_writers, grab_opened, grab_spc, grab_scam, grab_tpc,
              grab_tcam>>

VARIABLES
    last_alarm_state,      \* sistema de seguridad/main.py: the last alarmaActiva value seen
    CAMERA_CONTROLLERS,    \* its list of running controllers, each named by its number
    controllers_made,      \* how many controllers record_cameras has created
    mensaje,               \* the line escuchar_arduino handled last
    alarm_history          \* what the alarm messages so far amount to

almVars == <<last_alarm_state, CAMERA_CONTROLLERS, controllers_made, mensaje, alarm_history>>

VARIABLES
    wf_writers,            \* RecordingManager.writers while workers write frames: its keys
    wf_released,           \* the sources whose VideoWriter has had release() called
    wf_capture_threads,    \* CameraRecorder.capture_threads: its keys
    wf_should_stop,        \* CameraRecorder.should_stop_capture
    wf_wpc,                \* per sensor: position of its capture worker in the frame loop
    wf_spc,                \* position of the caller of stop_all_recordings
    wf_keys,               \* stop_all: the keys of list(self.writers.keys()) not yet visited
    wf_source              \* stop_recording: argument source_name

wfVars == <<wf_writers, wf_released, wf_capture_threads, wf_should_stop, wf_wpc, wf_spc,
            wf_keys, wf_source>>

\* The variants outside the modular system, and the frame loop against
\* stop_all_recordings statement by statement.
extVars == <<secVars, grabVars, almVars, wfVars>>

utilVars == <<detVars, alert_rejected, cfgVars, clipVars, extVars>>

auxVars == <<rmVars, lsnVars, ssVars, serVars, utilVars>>

ctlVars == <<recorder_is_recording, process, stop_event, rpc, last_error, joining>>

camVars == <<SENSOR_TO_CAMERA, capture_threads, active_captures,
             should_stop_capture, writers, tpc, tSensor, tCam, capOpen,
             cpc, srSensor, srThread, report, sig, hadActive,
             consecStarts>>

\* The variables of CameraRecorder and SecuritySystem other than
\* RecordingManager.writers.
camRest == <<SENSOR_TO_CAMERA, capture_threads, active_captures,
             should_stop_capture, tpc, tSensor, tCam, capOpen, cpc, srSensor,
             srThread, report, sig, hadActive, consecStarts>>

vars == <<camVars, ctlVars, auxVars>>

\* Everything but extVars.
coreVars == <<camVars, ctlVars, rmVars, lsnVars, ssVars, serVars, detVars, alert_rejected,
              cfgVars, clipVars>>

notSecVars == <<coreVars, grabVars, almVars, wfVars>>

notGrabVars == <<coreVars, secVars, almVars, wfVars>>

notAlmVars == <<coreVars, secVars, grabVars, wfVars>>

notWfVars == <<coreVars, secVars, grabVars, almVars>>

----------------------------------------------------------------------------
\* Python dict helpers.

EmptyDict == [k \in {} |-> 0]

Put(d, k, v) == [x \in (DOMAIN d) \cup {k} |-> IF x = k THEN v ELSE d[x]]

Del(d, k) == [x \in (DOMAIN d) \ {k} |-> d[x]]

\* dict.get(k, False)
GetOrFalse(d, k) == IF k \in DOMAIN d THEN d[k] ELSE FALSE

----------------------------------------------------------------------------
\* Thread.is_alive()
IsAlive(t) == tpc[t] \notin {"unborn", "done"}

\* CameraRecorder.is_recording
is_recording(z) == z \in DOMAIN capture_threads /\ IsAlive(capture_threads[z])

\* RecordingManager.get_recording_count
get_recording_count == Cardinality(DOMAIN writers)

\* An exclusively-openable device is held by an opened, unreleased capture.
CameraHeld(cam) == \E t \in Threads : capOpen[t] /\ tCam[t] = cam

\* The next Thread object to be constructed.
FreshThread == CHOOSE t \in Threads :
                  /\ tpc[t] = "unborn"
                  /\ \A u \in Threads : tpc[u] = "unborn" => t <= u

ThreadAvailable == \E t \in Threads : tpc[t] = "unborn"

\* Zone z has a registered worker that reached its capture loop with a writer.
Active(z) == /\ z \in DOMAIN capture_threads
             /\ tpc[capture_threads[z]] = "loop"
             /\ z \in DOMAIN writers

Starting(t) == tpc[t] \in {"open", "read", "start_rec"}

----------------------------------------------------------------------------
CamInit ==
    /\ SENSOR_TO_CAMERA \in Mappings
    /\ capture_threads = EmptyDict
    /\ active_captures = EmptyDict
    /\ should_stop_capture = EmptyDict
    /\ writers = EmptyDict
    /\ tpc = [t \in Threads |-> "unborn"]
    /\ tSensor = [t \in Threads |-> "ENTRADA"]
    /\ tCam = [t \in Threads |-> 0]
    /\ capOpen = [t \in Threads |-> FALSE]
    /\ cpc = [c \in Callers |-> "idle"]
    /\ srSensor = "ENTRADA"
    /\ srThread = 1
    /\ report = 0
    /\ sig = [t \in Threads |-> "none"]
    /\ hadActive = [c \in Callers |-> FALSE]
    /\ consecStarts = [z \in Zones |-> 0]

\* VideoDeviceRecorder.__init__ and VideoDeviceRecordingController.__init__
CtlInit ==
    /\ recorder_is_recording = [c \in Controllers |-> FALSE]
    /\ process = [c \in Controllers |-> "None"]
    /\ stop_event = [c \in Controllers |-> FALSE]
    /\ rpc = [c \in Controllers |-> "unborn"]
    /\ last_error = [c \in Controllers |-> "None"]
    /\ joining = 0

\* RecordingManager.__init__
RmInit ==
    /\ recording_config = EmptyDict
    /\ rmpc = [w \in RmCallers |-> "idle"]
    /\ rmSrc = [w \in RmCallers |-> "ENTRADA"]
    /\ rmResult = [w \in RmCallers |-> "None"]
    /\ rmFiles = [w \in RmCallers |-> 0]

\* ArduinoListener.__init__ opens the port once; no line read yet.
LsnInit ==
    /\ arduino_opens = 1
    /\ linea = <<>>
    /\ event = [kind |-> "None", sensor |-> "None"]

\* SS.py: SENSOR_TO_CAMERA, every sensor on camera 0.
SS_SENSOR_TO_CAMERA ==
    [sensor \in {"estacionamiento", "entrada", "salida", "bodega"} |-> 0]

\* SS.py module level: grab = Grabacion(), estado_sensores, hilo.start()
SSInit ==
    /\ estado_sensores = [sensor \in DOMAIN SS_SENSOR_TO_CAMERA |-> "None"]
    /\ captures = {}
    /\ hilo = "alive"
    /\ ss_last = "None"

\* Nothing sent, nothing waiting in the port opened by ArduinoListener.__init__.
SerInit ==
    /\ tx = <<>>
    /\ rx = <<>>
    /\ sentLine = <<>>

\* VideoDeviceDetection at import: nothing cached, FFmpeg never run.
DetInit ==
    /\ attached = {}
    /\ cache = {}
    /\ scanned = FALSE
    /\ devices = {}
    /\ alert_rejected = "None"

\* Nothing validated yet.
CfgInit ==
    /\ loaded_config = <<>>
    /\ device_map = {}
    /\ config_valid = "None"

\* VideoFileRecorder.__init__: self._active_threads = []
ClipInit ==
    /\ clip = [k \in Clips |-> "unborn"]
    /\ active_threads = <<>>
    /\ wpc = "idle"
    /\ wi = 0
    /\ before = {}

\* SecuritySystem.__init__ (SecuritySystem.py): every sensor False, no thread.
SecInit ==
    /\ sec_estado_sensores = [sensor \in AlertSensors |-> FALSE]
    /\ sec_capture_threads = {}
    /\ sec_should_stop = EmptyDict
    /\ sec_worker = [sensor \in AlertSensors |-> "none"]
    /\ sec_pc = "idle"

\* Grabacion.__init__: self.captures = {}; self.writers = {}
GrabInit ==
    /\ grab_captures = EmptyDict
    /\ grab_writers = EmptyDict
    /\ grab_opened = 0
    /\ grab_spc = "idle"
    /\ grab_scam = 0
    /\ grab_tpc = "idle"
    /\ grab_tcam = 0

\* sistema de seguridad/main.py at module level.
AlmInit ==
    /\ last_alarm_state = "0"
    /\ CAMERA_CONTROLLERS = <<>>
    /\ controllers_made = 0
    /\ mensaje = "None"
    /\ alarm_history = "none"

\* Both zones alerted: each worker has opened its camera, started its
\* recording and entered the frame loop.
WfInit ==
    /\ wf_writers = Zones
    /\ wf_released = {}
    /\ wf_capture_threads = Zones
    /\ wf_should_stop = [z \in Zones |-> FALSE]
    /\ wf_wpc = [z \in Zones |-> "loop"]
    /\ wf_spc = "idle"
    /\ wf_keys = {}
    /\ wf_source = "ENTRADA"

Init == CamInit /\ CtlInit /\ RmInit /\ LsnInit /\ SSInit /\ SerInit /\ DetInit /\ CfgInit
        /\ ClipInit /\ SecInit /\ GrabInit /\ AlmInit /\ WfInit

----------------------------------------------------------------------------
\* Capture worker: CameraRecorder._capture_and_record

\* return from _capture_and_record: the thread ends.
ThreadEnds(t) ==
    /\ tpc' = [tpc EXCEPT ![t] = "done"]
    /\ tSensor' = [tSensor EXCEPT ![t] = "ENTRADA"]
    /\ tCam' = [tCam EXCEPT ![t] = 0]
    /\ sig' = [sig EXCEPT ![t] = "none"]

\* OpenCamera without the isOpened() check: a capture that failed to open is
\* registered and read like an opened one.
OpenCamera_NoOpenedCheck(t) ==
    /\ tpc[t] = "open"
    /\ capOpen' = [capOpen EXCEPT ![t] = ~CameraHeld(tCam[t])]
    /\ active_captures' = Put(active_captures, tSensor[t], t)
    /\ tpc' = [tpc EXCEPT ![t] = "read"]
    /\ UNCHANGED <<auxVars, ctlVars, SENSOR_TO_CAMERA, capture_threads, should_stop_capture,
                   writers, tSensor, tCam, sig, cpc, srSensor, srThread, report,
                   hadActive, consecStarts>>

\* cap = cv.VideoCapture(camera_index); isOpened() check; register capture.
OpenCamera(t) ==
    /\ tpc[t] = "open"
    /\ \/ /\ ~CameraHeld(tCam[t])
          /\ capOpen' = [capOpen EXCEPT ![t] = TRUE]
          /\ active_captures' = Put(active_captures, tSensor[t], t)
          /\ tpc' = [tpc EXCEPT ![t] = "read"]
          /\ UNCHANGED <<tSensor, tCam, sig>>
       \/ /\ ThreadEnds(t)
          /\ UNCHANGED <<capOpen, active_captures>>
    /\ UNCHANGED <<auxVars, ctlVars, SENSOR_TO_CAMERA, capture_threads, should_stop_capture,
                   writers, cpc, srSensor, srThread, report, hadActive,
                   consecStarts>>

\* ret, frame = cap.read() for the initial frame; a released capture reads nothing.
ReadFirstFrame(t) ==
    /\ tpc[t] = "read"
    /\ \/ /\ capOpen[t]
          /\ tpc' = [tpc EXCEPT ![t] = "start_rec"]
          /\ UNCHANGED <<capOpen, tSensor, tCam, sig>>
       \/ /\ capOpen' = [capOpen EXCEPT ![t] = FALSE]
          /\ ThreadEnds(t)
    /\ UNCHANGED <<auxVars, ctlVars, SENSOR_TO_CAMERA, capture_threads, active_captures,
                   should_stop_capture, writers, cpc, srSensor, srThread,
                   report, hadActive, consecStarts>>

\* RecordingManager.start_recording(sensor, frame, "camera") as called by the
\* worker, and the worker's handling of its result.
WorkerStartRecording(t) ==
    /\ tpc[t] = "start_rec"
    /\ \/ /\ tSensor[t] \notin DOMAIN writers
          /\ writers' = Put(writers, tSensor[t], t)
          /\ tpc' = [tpc EXCEPT ![t] = "loop"]
          /\ UNCHANGED <<capOpen, tSensor, tCam, sig>>
       \/ /\ capOpen' = [capOpen EXCEPT ![t] = FALSE]
          /\ ThreadEnds(t)
          /\ UNCHANGED writers
    /\ UNCHANGED <<auxVars, ctlVars, SENSOR_TO_CAMERA, capture_threads, active_captures,
                   should_stop_capture, cpc, srSensor, srThread, report,
                   hadActive, consecStarts>>

\* The loop condition reads should_stop_capture.get(sensor, False) as True:
\* cap.release(), delete the zone's active_captures entry, return.
LoopExit(t) ==
    /\ tpc[t] = "loop"
    /\ GetOrFalse(should_stop_capture, tSensor[t])
    /\ capOpen' = [capOpen EXCEPT ![t] = FALSE]
    /\ active_captures' = Del(active_captures, tSensor[t])
    /\ ThreadEnds(t)
    /\ UNCHANGED <<auxVars, ctlVars, SENSOR_TO_CAMERA, capture_threads, should_stop_capture,
                   writers, cpc, srSensor, srThread, report, hadActive,
                   consecStarts>>

----------------------------------------------------------------------------
\* Listener thread: ArduinoListener.listen -> SecuritySystem._on_sensor_alert
\* -> CameraRecorder.start_recording

\* An "ALERTA:" line naming zone z: liveness check and should_stop_capture reset.
OnSensorAlert(z) ==
    /\ cpc["listener"] = "idle"
    /\ z \in DOMAIN SENSOR_TO_CAMERA
    /\ consecStarts' = [y \in Zones |-> IF y = z THEN consecStarts[z] ELSE 0]
    /\ IF is_recording(z)
       THEN UNCHANGED <<should_stop_capture, cpc, srSensor>>
       ELSE /\ ThreadAvailable
            /\ should_stop_capture' = Put(should_stop_capture, z, FALSE)
            /\ cpc' = [cpc EXCEPT !["listener"] = "sr_spawn"]
            /\ srSensor' = z
    /\ UNCHANGED <<auxVars, ctlVars, SENSOR_TO_CAMERA, capture_threads, active_captures,
                   writers, tpc, tSensor, tCam, capOpen, srThread, report,
                   sig, hadActive>>

\* SecuritySystem._get_device_name_for_index over self.device_map.
get_device_name_for_index(camera_index) ==
    IF camera_index \in Cameras THEN "device" ELSE "None"

\* A rejected alert that starts a recording all the same.
RejectedAlert_Starts(sensor) ==
    /\ cpc["listener"] = "idle"
    /\ sensor \notin DOMAIN SENSOR_TO_CAMERA
    /\ should_stop_capture' = Put(should_stop_capture, "ENTRADA", FALSE)
    /\ alert_rejected' = "not_configured"
    /\ UNCHANGED <<rmVars, lsnVars, ssVars, serVars, detVars, cfgVars, clipVars, extVars, ctlVars, SENSOR_TO_CAMERA,
                   capture_threads, active_captures, writers, tpc, tSensor, tCam,
                   capOpen, cpc, srSensor, srThread, report, sig, hadActive, consecStarts>>

\* SecuritySystem._on_sensor_alert, the two early returns: the sensor is not
\* in SENSOR_TO_CAMERA, or its camera index has no device in device_map.
RejectedAlert(sensor) ==
    /\ cpc["listener"] = "idle"
    /\ \/ sensor \notin DOMAIN SENSOR_TO_CAMERA
       \/ /\ sensor \in DOMAIN SENSOR_TO_CAMERA
          /\ get_device_name_for_index(SENSOR_TO_CAMERA[sensor]) = "None"
    /\ alert_rejected' = IF sensor \notin DOMAIN SENSOR_TO_CAMERA
                         THEN "not_configured" ELSE "no_device"
    /\ consecStarts' = [y \in Zones |-> 0]
    /\ UNCHANGED <<rmVars, lsnVars, ssVars, serVars, detVars, cfgVars, clipVars, extVars, ctlVars, SENSOR_TO_CAMERA,
                   capture_threads, active_captures, should_stop_capture, writers, tpc,
                   tSensor, tCam, capOpen, cpc, srSensor, srThread, report, sig,
                   hadActive>>

\* thread = threading.Thread(...); thread.start()  (or the except branch)
SpawnThread ==
    /\ cpc["listener"] = "sr_spawn"
    /\ \/ /\ tpc' = [tpc EXCEPT ![FreshThread] = "open"]
          /\ tSensor' = [tSensor EXCEPT ![FreshThread] = srSensor]
          /\ tCam' = [tCam EXCEPT ![FreshThread] = SENSOR_TO_CAMERA[srSensor]]
          /\ srThread' = FreshThread
          /\ cpc' = [cpc EXCEPT !["listener"] = "sr_register"]
          /\ consecStarts' = [consecStarts EXCEPT ![srSensor] = @ + 1]
          /\ UNCHANGED srSensor
       \/ /\ cpc' = [cpc EXCEPT !["listener"] = "idle"]
          /\ srSensor' = "ENTRADA"
          /\ UNCHANGED <<tpc, tSensor, tCam, srThread, consecStarts>>
    /\ UNCHANGED <<auxVars, ctlVars, SENSOR_TO_CAMERA, capture_threads, active_captures,
                   should_stop_capture, writers, capOpen, report, sig,
                   hadActive>>

\* self.capture_threads[sensor] = thread; return True
RegisterThread ==
    /\ cpc["listener"] = "sr_register"
    /\ capture_threads' = Put(capture_threads, srSensor, srThread)
    /\ cpc' = [cpc EXCEPT !["listener"] = "idle"]
    /\ srSensor' = "ENTRADA"
    /\ srThread' = 1
    /\ UNCHANGED <<auxVars, ctlVars, SENSOR_TO_CAMERA, active_captures, should_stop_capture,
                   writers, tpc, tSensor, tCam, capOpen, report, sig,
                   hadActive, consecStarts>>

\* ListenSerialError that also requests every worker to stop.
ListenSerialError_StopsSessions ==
    /\ cpc["listener"] = "idle"
    /\ cpc' = [cpc EXCEPT !["listener"] = "exited"]
    /\ should_stop_capture' = [z \in Zones |-> TRUE]
    /\ UNCHANGED <<auxVars, ctlVars, SENSOR_TO_CAMERA, capture_threads, active_captures,
                   writers, tpc, tSensor, tCam, capOpen, srSensor,
                   srThread, report, sig, hadActive, consecStarts>>

\* in_waiting / readline raises serial.SerialException: listen prints the
\* error and breaks out of its loop; the listener thread ends.
ListenSerialError ==
    /\ cpc["listener"] = "idle"
    /\ cpc' = [cpc EXCEPT !["listener"] = "exited"]
    /\ UNCHANGED <<auxVars, ctlVars, SENSOR_TO_CAMERA, capture_threads, active_captures,
                   should_stop_capture, writers, tpc, tSensor, tCam, capOpen, srSensor,
                   srThread, report, sig, hadActive, consecStarts>>

----------------------------------------------------------------------------
\* CameraRecorder.stop_all_recordings, called by the listener on a
\* deactivation line and by the operator on "desactivado" / close().

SigPhase(t) == IF tpc[t] = "loop" THEN "active" ELSE "starting"

\* Early return on an empty registry, else set every registered zone's flag.
StopAllSignal(c) ==
    /\ cpc[c] = "idle"
    /\ consecStarts' = [z \in Zones |-> 0]
    /\ IF DOMAIN capture_threads = {}
       THEN UNCHANGED <<should_stop_capture, sig, cpc, hadActive>>
       ELSE /\ should_stop_capture' =
                 [z \in (DOMAIN should_stop_capture) \cup (DOMAIN capture_threads) |->
                     IF z \in DOMAIN capture_threads THEN TRUE
                     ELSE should_stop_capture[z]]
            /\ sig' = [t \in Threads |->
                         IF /\ \E z \in DOMAIN capture_threads : capture_threads[z] = t
                            /\ IsAlive(t)
                            /\ sig[t] = "none"
                         THEN SigPhase(t) ELSE sig[t]]
            /\ hadActive' = [hadActive EXCEPT ![c] = \E z \in Zones : Active(z)]
            /\ cpc' = [cpc EXCEPT ![c] = "sa_join"]
    /\ UNCHANGED <<auxVars, ctlVars, SENSOR_TO_CAMERA, capture_threads, active_captures,
                   writers, tpc, tSensor, tCam, capOpen, srSensor, srThread,
                   report>>

\* The loop of thread.join(timeout=2.0), each join returning when its thread
\* has ended or after 2 s, then RecordingManager.stop_all: stop_recording
\* for every key of writers.
JoinAndStopAll(c) ==
    /\ cpc[c] = "sa_join"
    /\ writers' = EmptyDict
    /\ cpc' = [cpc EXCEPT ![c] = "sa_clear"]
    /\ UNCHANGED <<auxVars, ctlVars, SENSOR_TO_CAMERA, capture_threads, active_captures,
                   should_stop_capture, tpc, tSensor, tCam, capOpen, srSensor,
                   srThread, report, sig, hadActive, consecStarts>>

\* self.capture_threads.clear(); self.should_stop_capture.clear()
ClearRegistries(c) ==
    /\ cpc[c] = "sa_clear"
    /\ capture_threads' = EmptyDict
    /\ should_stop_capture' = EmptyDict
    /\ cpc' = [cpc EXCEPT ![c] = "sa_release"]
    /\ UNCHANGED <<auxVars, ctlVars, SENSOR_TO_CAMERA, active_captures, writers, tpc, tSensor,
                   tCam, capOpen, srSensor, srThread, report, sig,
                   hadActive, consecStarts>>

\* cap.release() for every remaining capture; self.active_captures.clear();
\* stop_all_recordings returns.
ReleaseCaptures(c) ==
    /\ cpc[c] = "sa_release"
    /\ capOpen' = [t \in Threads |->
                     IF \E z \in DOMAIN active_captures : active_captures[z] = t
                     THEN FALSE ELSE capOpen[t]]
    /\ active_captures' = EmptyDict
    /\ cpc' = [cpc EXCEPT ![c] = "idle"]
    /\ hadActive' = [hadActive EXCEPT ![c] = FALSE]
    /\ UNCHANGED <<auxVars, ctlVars, SENSOR_TO_CAMERA, capture_threads, should_stop_capture,
                   writers, tpc, tSensor, tCam, srSensor, srThread,
                   report, sig, consecStarts>>

----------------------------------------------------------------------------
\* Operator thread: SecuritySystem.get_status_report

\* active_recordings = self.recording_manager.get_recording_count()
StatusCount ==
    /\ cpc["operator"] = "idle"
    /\ report' = get_recording_count
    /\ cpc' = [cpc EXCEPT !["operator"] = "st_zones"]
    /\ UNCHANGED <<auxVars, ctlVars, SENSOR_TO_CAMERA, capture_threads, active_captures,
                   should_stop_capture, writers, tpc, tSensor, tCam, capOpen,
                   srSensor, srThread, sig, hadActive, consecStarts>>

\* The zones the loop over SENSOR_TO_CAMERA reports as "GRABANDO".
ReportedRecording == {z \in DOMAIN SENSOR_TO_CAMERA : is_recording(z)}

\* for sensor in SENSOR_TO_CAMERA: is_recording(sensor); return report
StatusZones ==
    /\ cpc["operator"] = "st_zones"
    /\ report' = 0
    /\ cpc' = [cpc EXCEPT !["operator"] = "idle"]
    /\ UNCHANGED <<auxVars, ctlVars, SENSOR_TO_CAMERA, capture_threads, active_captures,
                   should_stop_capture, writers, tpc, tSensor, tCam, capOpen,
                   srSensor, srThread, sig, hadActive, consecStarts>>

----------------------------------------------------------------------------
Next ==
    \/ \E t \in Threads : OpenCamera(t)
    \/ \E t \in Threads : ReadFirstFrame(t)
    \/ \E t \in Threads : WorkerStartRecording(t)
    \/ \E t \in Threads : LoopExit(t)
    \/ \E z \in Zones : OnSensorAlert(z)
    \/ \E sensor \in AlertSensors : RejectedAlert(sensor)
    \/ SpawnThread
    \/ RegisterThread
    \/ ListenSerialError
    \/ \E c \in Callers : StopAllSignal(c)
    \/ \E c \in Callers : JoinAndStopAll(c)
    \/ \E c \in Callers : ClearRegistries(c)
    \/ \E c \in Callers : ReleaseCaptures(c)
    \/ StatusCount
    \/ StatusZones

Spec == Init /\ [][Next]_vars

----------------------------------------------------------------------------
\* VideoDeviceRecordingController and VideoDeviceRecorder (RecordingController
\* and VideoRecorder have the same code).

\* recording_thread is not None and recording_thread.is_alive()
ThreadAlive(c) == rpc[c] \notin {"unborn", "done"}

\* The timestamp at which VideoDeviceRecorder.py is imported.
ImportTimestamp == 0

\* The default value of __init__'s parameter output_file: its f-string with
\* datetime.now() is evaluated once, when the def statement is executed.
DefaultOutputFile == <<"videos/cameras/camera", ImportTimestamp, ".mp4">>

\* self.output_file of the recorder that record_cameras constructs for
\* controller c with VideoDeviceRecorder(video_device=device).
output_file(c) == DefaultOutputFile

\* VideoDeviceRecorder.is_recording_active
is_recording_active(c) == recorder_is_recording[c] /\ process[c] # "None"

\* VideoDeviceRecordingController.is_recording
controller_is_recording(c) == ThreadAlive(c) /\ is_recording_active(c)

\* VideoDeviceRecordingController.start
start(c) ==
    /\ joining = 0
    /\ IF ThreadAlive(c)
       THEN UNCHANGED <<stop_event, last_error, rpc>>
       ELSE /\ stop_event' = [stop_event EXCEPT ![c] = FALSE]
            /\ last_error' = [last_error EXCEPT ![c] = "None"]
            /\ rpc' = [rpc EXCEPT ![c] = "start"]
    /\ UNCHANGED <<auxVars, camVars, recorder_is_recording, process, joining>>

\* VideoDeviceRecordingController.stop: stop_event.set(), then the join begins.
stop(c) ==
    /\ joining = 0
    /\ stop_event' = [stop_event EXCEPT ![c] = TRUE]
    /\ joining' = IF rpc[c] # "unborn" THEN c ELSE 0
    /\ UNCHANGED <<auxVars, camVars, recorder_is_recording, process, rpc, last_error>>

\* recording_thread.join(timeout=5.0) returns: the thread ended, or 5 s passed.
JoinReturns ==
    /\ joining # 0
    /\ joining' = 0
    /\ UNCHANGED <<auxVars, camVars, recorder_is_recording, process, stop_event, rpc,
                   last_error>>

\* start_recording without its is_recording guard.
RunStartRecording_NoGuard(c) ==
    /\ rpc[c] = "start"
    /\ \/ /\ process' = [process EXCEPT ![c] = "running"]
          /\ recorder_is_recording' = [recorder_is_recording EXCEPT ![c] = TRUE]
          /\ rpc' = [rpc EXCEPT ![c] = "wait"]
       \/ /\ rpc' = [rpc EXCEPT ![c] = "done"]
          /\ UNCHANGED <<recorder_is_recording, process>>
    /\ UNCHANGED <<auxVars, camVars, stop_event, last_error, joining>>

\* A _run that clears the event once start_recording has returned.
RunStartRecording_ClearsEvent(c) ==
    /\ rpc[c] = "start"
    /\ IF recorder_is_recording[c]
       THEN /\ rpc' = [rpc EXCEPT ![c] = "done"]
            /\ UNCHANGED <<recorder_is_recording, process>>
       ELSE \/ /\ process' = [process EXCEPT ![c] = "running"]
               /\ recorder_is_recording' = [recorder_is_recording EXCEPT ![c] = TRUE]
               /\ rpc' = [rpc EXCEPT ![c] = "wait"]
            \/ /\ rpc' = [rpc EXCEPT ![c] = "done"]
               /\ UNCHANGED <<recorder_is_recording, process>>
    /\ stop_event' = [stop_event EXCEPT ![c] = FALSE]
    /\ UNCHANGED <<auxVars, camVars, last_error, joining>>

\* _run calls VideoDeviceRecorder.start_recording: the is_recording guard,
\* then subprocess.Popen succeeds or raises.
RunStartRecording(c) ==
    /\ rpc[c] = "start"
    /\ IF recorder_is_recording[c]
       THEN /\ rpc' = [rpc EXCEPT ![c] = "done"]
            /\ UNCHANGED <<recorder_is_recording, process>>
       ELSE \/ /\ process' = [process EXCEPT ![c] = "running"]
               /\ recorder_is_recording' = [recorder_is_recording EXCEPT ![c] = TRUE]
               /\ rpc' = [rpc EXCEPT ![c] = "wait"]
            \/ /\ rpc' = [rpc EXCEPT ![c] = "done"]
               /\ UNCHANGED <<recorder_is_recording, process>>
    /\ UNCHANGED <<auxVars, camVars, stop_event, last_error, joining>>

\* self.stop_event.wait() returns once the event is set.
RunWait(c) ==
    /\ rpc[c] = "wait"
    /\ stop_event[c]
    /\ rpc' = [rpc EXCEPT ![c] = "stopping"]
    /\ UNCHANGED <<auxVars, camVars, recorder_is_recording, process, stop_event,
                   last_error, joining>>

\* The FFmpeg subprocess exits (on 'q', on terminate(), or by itself).
EncoderExits(c) ==
    /\ process[c] = "running"
    /\ process' = [process EXCEPT ![c] = "exited"]
    /\ UNCHANGED <<auxVars, camVars, recorder_is_recording, stop_event, rpc,
                   last_error, joining>>

\* VideoDeviceRecorder.stop_recording: the guard, then stdin.write('q\n') and
\* flush(), which raise on the pipe of an exited process (except Exception).
StopRecordingWrite(c) ==
    /\ rpc[c] = "stopping"
    /\ IF ~recorder_is_recording[c] \/ process[c] = "None"
       THEN /\ rpc' = [rpc EXCEPT ![c] = "done"]
            /\ UNCHANGED <<recorder_is_recording, process>>
       ELSE IF process[c] = "exited"
       THEN /\ recorder_is_recording' = [recorder_is_recording EXCEPT ![c] = FALSE]
            /\ process' = [process EXCEPT ![c] = "None"]
            /\ rpc' = [rpc EXCEPT ![c] = "done"]
       ELSE /\ rpc' = [rpc EXCEPT ![c] = "graceful_wait"]
            /\ UNCHANGED <<recorder_is_recording, process>>
    /\ UNCHANGED <<auxVars, camVars, stop_event, last_error, joining>>

\* process.wait(timeout=10): returns, or raises TimeoutExpired and the handler
\* calls process.terminate().
StopRecordingWait(c) ==
    /\ rpc[c] = "graceful_wait"
    /\ IF process[c] = "exited"
       THEN /\ recorder_is_recording' = [recorder_is_recording EXCEPT ![c] = FALSE]
            /\ process' = [process EXCEPT ![c] = "None"]
            /\ rpc' = [rpc EXCEPT ![c] = "done"]
       ELSE /\ rpc' = [rpc EXCEPT ![c] = "force_wait"]
            /\ UNCHANGED <<recorder_is_recording, process>>
    /\ UNCHANGED <<auxVars, camVars, stop_event, last_error, joining>>

\* process.wait(timeout=5) inside the TimeoutExpired handler: returns, or
\* raises TimeoutExpired out of stop_recording into _run's except clause.
StopRecordingForce(c) ==
    /\ rpc[c] = "force_wait"
    /\ IF process[c] = "exited"
       THEN /\ recorder_is_recording' = [recorder_is_recording EXCEPT ![c] = FALSE]
            /\ process' = [process EXCEPT ![c] = "None"]
            /\ UNCHANGED last_error
       ELSE /\ last_error' = [last_error EXCEPT ![c] = "TimeoutExpired"]
            /\ UNCHANGED <<recorder_is_recording, process>>
    /\ rpc' = [rpc EXCEPT ![c] = "done"]
    /\ UNCHANGED <<auxVars, camVars, stop_event, joining>>

CtlNext ==
    \/ \E c \in Controllers : start(c)
    \/ \E c \in Controllers : stop(c)
    \/ JoinReturns
    \/ \E c \in Controllers : RunStartRecording(c)
    \/ \E c \in Controllers : RunWait(c)
    \/ \E c \in Controllers : EncoderExits(c)
    \/ \E c \in Controllers : StopRecordingWrite(c)
    \/ \E c \in Controllers : StopRecordingWait(c)
    \/ \E c \in Controllers : StopRecordingForce(c)

CtlSpec == Init /\ [][CtlNext]_vars

\* The worker thread is scheduled: a start_recording call returns, and a wait
\* on a set event returns.
CtlFairSpec ==
    /\ CtlSpec
    /\ \A c \in Controllers : /\ WF_vars(RunStartRecording(c))
                              /\ WF_vars(RunWait(c))

----------------------------------------------------------------------------
\* RecordingManager, one step per statement that reads or writes its dicts.
\* The threads hold no lock; a switch can happen between any two statements.

\* RecordingManager.configure_source
configure_source(s, b) ==
    /\ recording_config' = Put(recording_config, s, b)
    /\ UNCHANGED <<camVars, ctlVars, lsnVars, ssVars, serVars, utilVars, rmpc, rmSrc, rmResult, rmFiles>>

\* RmStartCheck without the recording_config test: only a source that is
\* already recording is refused.
RmStartCheck_IgnoresConfig(w, s) ==
    /\ rmpc[w] = "idle"
    /\ IF s \in DOMAIN writers
       THEN /\ rmResult' = [rmResult EXCEPT ![w] = "start_False"]
            /\ UNCHANGED <<rmpc, rmSrc>>
       ELSE /\ rmpc' = [rmpc EXCEPT ![w] = "sr_create"]
            /\ rmSrc' = [rmSrc EXCEPT ![w] = s]
            /\ rmResult' = [rmResult EXCEPT ![w] = "None"]
    /\ rmFiles' = [rmFiles EXCEPT ![w] = 0]
    /\ UNCHANGED <<camVars, ctlVars, lsnVars, ssVars, serVars, utilVars, recording_config>>

\* start_recording: the "already recording" and recording_config checks.
RmStartCheck(w, s) ==
    /\ rmpc[w] = "idle"
    /\ IF s \in DOMAIN writers \/ (s \in DOMAIN recording_config /\ ~recording_config[s])
       THEN /\ rmResult' = [rmResult EXCEPT ![w] = "start_False"]
            /\ UNCHANGED <<rmpc, rmSrc>>
       ELSE /\ rmpc' = [rmpc EXCEPT ![w] = "sr_create"]
            /\ rmSrc' = [rmSrc EXCEPT ![w] = s]
            /\ rmResult' = [rmResult EXCEPT ![w] = "None"]
    /\ rmFiles' = [rmFiles EXCEPT ![w] = 0]
    /\ UNCHANGED <<camVars, ctlVars, lsnVars, ssVars, serVars, utilVars, recording_config>>

\* start_recording: cv.VideoWriter(output_path, ...) and the isOpened() check
\* (return False when the writer did not open or the constructor raised).
RmCreateWriter(w) ==
    /\ rmpc[w] = "sr_create"
    /\ \/ /\ rmpc' = [rmpc EXCEPT ![w] = "sr_register"]
          /\ rmFiles' = [rmFiles EXCEPT ![w] = @ + 1]
          /\ UNCHANGED <<rmSrc, rmResult>>
       \/ /\ rmpc' = [rmpc EXCEPT ![w] = "idle"]
          /\ rmSrc' = [rmSrc EXCEPT ![w] = "ENTRADA"]
          /\ rmResult' = [rmResult EXCEPT ![w] = "start_False"]
          /\ UNCHANGED rmFiles
    /\ UNCHANGED <<camVars, ctlVars, lsnVars, ssVars, serVars, utilVars, recording_config>>

\* start_recording: self.writers[source_name] = writer; return True
RmRegister(w) ==
    /\ rmpc[w] = "sr_register"
    /\ writers' = Put(writers, rmSrc[w], w)
    /\ rmpc' = [rmpc EXCEPT ![w] = "idle"]
    /\ rmSrc' = [rmSrc EXCEPT ![w] = "ENTRADA"]
    /\ rmResult' = [rmResult EXCEPT ![w] = "start_True"]
    /\ UNCHANGED <<camRest, ctlVars, lsnVars, ssVars, serVars, utilVars, recording_config, rmFiles>>

\* stop_recording: if source_name not in self.writers: return False
RmStopCheck(w, s) ==
    /\ rmpc[w] = "idle"
    /\ IF s \notin DOMAIN writers
       THEN /\ rmResult' = [rmResult EXCEPT ![w] = "stop_False"]
            /\ UNCHANGED <<rmpc, rmSrc>>
       ELSE /\ rmpc' = [rmpc EXCEPT ![w] = "st_release"]
            /\ rmSrc' = [rmSrc EXCEPT ![w] = s]
            /\ rmResult' = [rmResult EXCEPT ![w] = "None"]
    /\ UNCHANGED <<camVars, ctlVars, lsnVars, ssVars, serVars, utilVars, recording_config, rmFiles>>

\* RmStopRelease without the del statement: the writer is released but its
\* entry stays in writers.
RmStopRelease_NoDel(w) ==
    /\ rmpc[w] = "st_release"
    /\ UNCHANGED writers
    /\ rmResult' = [rmResult EXCEPT ![w] =
                       IF rmSrc[w] \in DOMAIN writers THEN "stop_True" ELSE "stop_False"]
    /\ rmpc' = [rmpc EXCEPT ![w] = "idle"]
    /\ rmSrc' = [rmSrc EXCEPT ![w] = "ENTRADA"]
    /\ UNCHANGED <<camRest, ctlVars, lsnVars, ssVars, serVars, utilVars, recording_config, rmFiles>>

\* stop_recording: self.writers[source_name].release(); del; return True.
\* An exception is caught and False returned: a KeyError (the entry was
\* deleted meanwhile), or release() raising, which skips the del.
RmStopRelease(w) ==
    /\ rmpc[w] = "st_release"
    /\ IF rmSrc[w] \in DOMAIN writers
       THEN \/ /\ writers' = Del(writers, rmSrc[w])
               /\ rmResult' = [rmResult EXCEPT ![w] = "stop_True"]
            \/ /\ UNCHANGED writers
               /\ rmResult' = [rmResult EXCEPT ![w] = "stop_False"]
       ELSE /\ UNCHANGED writers
            /\ rmResult' = [rmResult EXCEPT ![w] = "stop_False"]
    /\ rmpc' = [rmpc EXCEPT ![w] = "idle"]
    /\ rmSrc' = [rmSrc EXCEPT ![w] = "ENTRADA"]
    /\ UNCHANGED <<camRest, ctlVars, lsnVars, ssVars, serVars, utilVars, recording_config, rmFiles>>

RmNext ==
    \/ \E s \in Zones : \E b \in BOOLEAN : configure_source(s, b)
    \/ \E w \in RmCallers : \E s \in Zones : RmStartCheck(w, s)
    \/ \E w \in RmCallers : RmCreateWriter(w)
    \/ \E w \in RmCallers : RmRegister(w)
    \/ \E w \in RmCallers : \E s \in Zones : RmStopCheck(w, s)
    \/ \E w \in RmCallers : RmStopRelease(w)

RmSpec == Init /\ [][RmNext]_vars

\* RecordingManager.toggle_recording, one whole call with no other call in
\* progress: stop_recording when is_recording(s), its result ignored (the
\* entry is deleted, or release() raised and it stays); else start_recording
\* when a frame is given (refused by recording_config, or the writer opens or
\* does not); else the warning.
toggle_recording(w, s, frame) ==
    /\ \A v \in RmCallers : rmpc[v] = "idle"
    /\ IF s \in DOMAIN writers
       THEN /\ \/ writers' = Del(writers, s)
               \/ UNCHANGED writers
            /\ rmResult' = [rmResult EXCEPT ![w] = "toggle_False"]
            /\ UNCHANGED rmFiles
       ELSE IF frame
       THEN IF s \in DOMAIN recording_config /\ ~recording_config[s]
            THEN /\ rmResult' = [rmResult EXCEPT ![w] = "toggle_False"]
                 /\ rmFiles' = [rmFiles EXCEPT ![w] = 0]
                 /\ UNCHANGED writers
            ELSE \/ /\ writers' = Put(writers, s, w)
                    /\ rmFiles' = [rmFiles EXCEPT ![w] = 1]
                    /\ rmResult' = [rmResult EXCEPT ![w] = "toggle_True"]
                 \/ /\ rmResult' = [rmResult EXCEPT ![w] = "toggle_False"]
                    /\ rmFiles' = [rmFiles EXCEPT ![w] = 0]
                    /\ UNCHANGED writers
       ELSE /\ rmResult' = [rmResult EXCEPT ![w] = "toggle_False"]
            /\ UNCHANGED <<writers, rmFiles>>
    /\ UNCHANGED <<camRest, ctlVars, lsnVars, ssVars, serVars, utilVars, recording_config,
                   rmpc, rmSrc>>

ToggleNext ==
    \/ \E s \in Zones : \E b \in BOOLEAN : configure_source(s, b)
    \/ \E w \in RmCallers : \E s \in Zones : \E frame \in BOOLEAN :
          toggle_recording(w, s, frame)

ToggleSpec == Init /\ [][ToggleNext]_vars

----------------------------------------------------------------------------
\* ArduinoListener.listen: one line read and dispatched.

\* str.upper() on one token.
Upper(tok) ==
    CASE tok = "alerta:" -> "ALERTA:"
      [] tok = "entrada" -> "ENTRADA"
      [] tok = "desactivado" -> "DESACTIVADO"
      [] tok = "alarmaActiva=0" -> "ALARMAACTIVA=0"
      [] tok = "x" -> "X"
      [] OTHER -> tok

\* message.upper()
UpperLine(l) == [i \in DOMAIN l |-> Upper(l[i])]

\* marker in line (substring test)
Contains(l, marker) == \E i \in DOMAIN l : l[i] = marker

\* parse_alert_message: the list sensors, in its order.
sensors == <<"ENTRADA", "SALIDA", "ESTACIONAMIENTO", "BODEGA">>

\* parse_alert_message: the first sensor of the list found in the upper-cased
\* message, else None.
parse_alert_message(message) ==
    LET found == {i \in DOMAIN sensors : Contains(UpperLine(message), sensors[i])}
    IN  IF found = {} THEN "None"
        ELSE sensors[CHOOSE i \in found : \A j \in found : i <= j]

\* Dispatch with a final else branch that calls on_deactivation().
Dispatch_ElseDeactivate(l) ==
    IF Contains(l, "ALERTA:")
    THEN IF parse_alert_message(l) # "None"
         THEN [kind |-> "Alert", sensor |-> parse_alert_message(l)]
         ELSE [kind |-> "Unrecognized", sensor |-> "None"]
    ELSE [kind |-> "Deactivate", sensor |-> "None"]

\* The if / elif chain of listen on a non-empty line.
Dispatch(l) ==
    IF Contains(l, "ALERTA:")
    THEN IF parse_alert_message(l) # "None"
         THEN [kind |-> "Alert", sensor |-> parse_alert_message(l)]
         ELSE [kind |-> "Unrecognized", sensor |-> "None"]
    ELSE IF Contains(l, "alarmaActiva=0") \/ Contains(l, "DESACTIVADO")
         THEN [kind |-> "Deactivate", sensor |-> "None"]
         ELSE [kind |-> "Ignored", sensor |-> "None"]

\* One iteration of the loop with a line waiting: readline, then the call of
\* on_alert(sensor) or on_deactivation() recorded in event (the callbacks
\* themselves are OnSensorAlert and StopAllSignal).
ReadLine(l) ==
    /\ cpc["listener"] = "idle"
    /\ linea' = l
    /\ event' = Dispatch(l)
    /\ UNCHANGED <<camVars, ctlVars, rmVars, ssVars, utilVars, arduino_opens>>

ListenNext ==
    \/ \E l \in Lines : ReadLine(l) /\ UNCHANGED serVars
    \/ ListenSerialError

ListenSpec == Init /\ [][ListenNext]_vars

----------------------------------------------------------------------------
\* The serial port under ArduinoListener.listen (serial.Serial(..., timeout=1)).

\* The device starts to send line l, once the previous line has been consumed.
DeviceSendsLine(l) ==
    /\ tx = <<>>
    /\ rx = <<>>
    /\ tx' = l \o <<"\n">>
    /\ sentLine' = l
    /\ UNCHANGED <<camVars, ctlVars, rmVars, lsnVars, ssVars, utilVars, rx>>

\* The next piece of the line arrives in the port's input buffer.
Transmit ==
    /\ tx # <<>>
    /\ rx' = Append(rx, Head(tx))
    /\ tx' = Tail(tx)
    /\ UNCHANGED <<camVars, ctlVars, rmVars, lsnVars, ssVars, utilVars, sentLine>>

\* Number of bytes readline() returns: up to and including the first
\* terminator in the buffer, or, when the 1 s timeout passes without a
\* terminator, everything received so far.
ReadlineLen ==
    IF \E i \in DOMAIN rx : rx[i] = "\n"
    THEN CHOOSE i \in DOMAIN rx : rx[i] = "\n" /\ \A j \in 1..(i - 1) : rx[j] # "\n"
    ELSE Len(rx)

\* self.arduino.readline()
ReadlineResult == SubSeq(rx, 1, ReadlineLen)

\* bytes.decode("utf-8", errors='ignore'): invalid bytes are dropped.
Decode(data) == SelectSeq(data, LAMBDA b : b # "<invalid>")

\* str.strip(): the line terminator is removed.
Strip(data) == SelectSeq(data, LAMBDA b : b # "\n")

\* linea = self.arduino.readline().decode("utf-8", errors='ignore').strip()
DecodedLine == Strip(Decode(ReadlineResult))

\* One iteration of listen with in_waiting > 0: readline, decode, strip, and,
\* if the line is not empty, the dispatch of ReadLine.
SerialReadline ==
    /\ rx # <<>>
    /\ rx' = SubSeq(rx, ReadlineLen + 1, Len(rx))
    /\ UNCHANGED <<tx, sentLine>>
    /\ IF DecodedLine # <<>>
       THEN ReadLine(DecodedLine)
       ELSE /\ cpc["listener"] = "idle"
            /\ UNCHANGED <<camVars, ctlVars, rmVars, lsnVars, ssVars, utilVars>>

SerialNext ==
    \/ \E l \in WireLines : DeviceSendsLine(l)
    \/ Transmit
    \/ SerialReadline
    \/ ListenSerialError

SerialSpec == Init /\ [][SerialNext]_vars

----------------------------------------------------------------------------
\* VideoDeviceDetection.get_devices (@lru_cache(maxsize=1)) and clear_cache.
\* A device list is modelled by the set of its names.

\* A device is plugged in or removed.
PlugOrUnplug(d) ==
    /\ attached' = IF d \in attached THEN attached \ {d} ELSE attached \cup {d}
    /\ UNCHANGED <<camVars, ctlVars, rmVars, lsnVars, ssVars, serVars, alert_rejected, cfgVars, clipVars, extVars,
                   cache, scanned, devices>>

\* get_devices that runs FFmpeg on every call.
get_devices_NoCache ==
    /\ \E result \in {attached, {}} :
          /\ cache' = {result}
          /\ devices' = {result}
    /\ scanned' = TRUE
    /\ UNCHANGED <<camVars, ctlVars, rmVars, lsnVars, ssVars, serVars, alert_rejected, cfgVars, clipVars, extVars,
                   attached>>

\* get_devices: a cache hit returns the cached list; a miss runs FFmpeg, which
\* lists the attached devices or fails (every exception is caught and []
\* returned), and the returned list is cached either way.
get_devices ==
    /\ IF cache # {}
       THEN /\ devices' = cache
            /\ scanned' = FALSE
            /\ UNCHANGED cache
       ELSE /\ \E result \in {attached, {}} :
                  /\ cache' = {result}
                  /\ devices' = {result}
            /\ scanned' = TRUE
    /\ UNCHANGED <<camVars, ctlVars, rmVars, lsnVars, ssVars, serVars, alert_rejected, cfgVars, clipVars, extVars,
                   attached>>

\* clear_cache: cls.get_devices.cache_clear()
clear_cache ==
    /\ cache' = {}
    /\ UNCHANGED <<camVars, ctlVars, rmVars, lsnVars, ssVars, serVars, alert_rejected, cfgVars, clipVars, extVars,
                   attached, scanned, devices>>

DetNext ==
    \/ \E d \in DeviceNames : PlugOrUnplug(d)
    \/ get_devices
    \/ clear_cache

DetSpec == Init /\ [][DetNext]_vars

----------------------------------------------------------------------------
\* CameraConfigManager.validate_config_with_devices

\* The validation with the set difference taken the other way round.
validate_config_with_devices_Reversed(sensor_to_camera, dm) ==
    LET available_indices == {p[1] : p \in dm}
        configured_indices == {sensor_to_camera[z] : z \in DOMAIN sensor_to_camera}
        missing_indices == available_indices \ configured_indices
    IN  IF missing_indices # {} THEN FALSE ELSE TRUE

\* available_indices, configured_indices, missing_indices as in the code.
validate_config_with_devices(sensor_to_camera, dm) ==
    LET available_indices == {p[1] : p \in dm}
        configured_indices == {sensor_to_camera[z] : z \in DOMAIN sensor_to_camera}
        missing_indices == configured_indices \ available_indices
    IN  IF missing_indices # {} THEN FALSE ELSE TRUE

\* SecuritySystem._setup_cameras validates a loaded configuration against the
\* detected devices.
ValidateConfig(m, dm) ==
    /\ loaded_config' = m
    /\ device_map' = dm
    /\ config_valid' = IF validate_config_with_devices(m, dm) THEN "True" ELSE "False"
    /\ UNCHANGED <<camVars, ctlVars, rmVars, lsnVars, ssVars, serVars, detVars,
                   alert_rejected, clipVars, extVars>>

CfgNext == \E m \in LoadedConfigs : \E dm \in DeviceMaps : ValidateConfig(m, dm)

CfgSpec == Init /\ [][CfgNext]_vars

----------------------------------------------------------------------------
\* VideoFileRecorder: create_clip, _run_clip, wait_for_all_clips, used by one
\* caller; the clip threads run alongside it.

otherThanClips == <<camVars, ctlVars, rmVars, lsnVars, ssVars, serVars, detVars,
                    alert_rejected, cfgVars, extVars>>

\* create_clip: thread.start(); self._active_threads.append(thread)
create_clip ==
    /\ wpc = "idle"
    /\ \E k \in Clips :
          /\ clip[k] = "unborn"
          /\ \A j \in 1..(k - 1) : clip[j] # "unborn"
          /\ clip' = [clip EXCEPT ![k] = "running"]
          /\ active_threads' = Append(active_threads, k)
    /\ UNCHANGED <<otherThanClips, wpc, wi, before>>

\* _run_clip returns: FFmpeg ended, or an exception was logged.
ClipFinishes(k) ==
    /\ clip[k] = "running"
    /\ clip' = [clip EXCEPT ![k] = "finished"]
    /\ UNCHANGED <<otherThanClips, active_threads, wpc, wi, before>>

\* wait_for_all_clips is called.
WaitBegin ==
    /\ wpc = "idle"
    /\ wpc' = "join"
    /\ wi' = 1
    /\ before' = {k \in Clips : clip[k] # "unborn"}
    /\ UNCHANGED <<otherThanClips, clip, active_threads>>

\* thread.join(timeout) that returns when the time is up.
WaitJoin_Timeout ==
    /\ wpc = "join"
    /\ wi <= Len(active_threads)
    /\ wi' = wi + 1
    /\ UNCHANGED <<otherThanClips, clip, active_threads, wpc, before>>

\* for thread in self._active_threads: thread.join()
WaitJoin ==
    /\ wpc = "join"
    /\ wi <= Len(active_threads)
    /\ clip[active_threads[wi]] = "finished"
    /\ wi' = wi + 1
    /\ UNCHANGED <<otherThanClips, clip, active_threads, wpc, before>>

\* The loop is over: self._active_threads.clear(); return
WaitClear ==
    /\ wpc = "join"
    /\ wi > Len(active_threads)
    /\ active_threads' = <<>>
    /\ wpc' = "idle"
    /\ wi' = 0
    /\ UNCHANGED <<otherThanClips, clip, before>>

ClipNext ==
    \/ create_clip
    \/ \E k \in Clips : ClipFinishes(k)
    \/ WaitBegin
    \/ WaitJoin
    \/ WaitClear

ClipSpec == Init /\ [][ClipNext]_vars

----------------------------------------------------------------------------
\* SecuritySystem.py, the monolithic variant: the status flags and the
\* capture threads they describe.  The RecordingManager it drives is the one
\* of RmSpec and is not part of this specification's state.

SecLive(sensor) == sec_worker[sensor] \in {"open", "loop"}

\* _start_camera_recording, called by escuchar_arduino for an alert: the
\* liveness guard, then should_stop_capture[sensor] = False, thread.start(),
\* capture_threads[sensor] = thread, estado_sensores[sensor] = True.
SecStartCameraRecording(sensor) ==
    /\ sec_pc = "idle"
    /\ IF sensor \in sec_capture_threads /\ SecLive(sensor)
       THEN UNCHANGED <<sec_estado_sensores, sec_capture_threads, sec_should_stop,
                        sec_worker>>
       ELSE /\ sec_should_stop' = Put(sec_should_stop, sensor, FALSE)
            /\ sec_worker' = [sec_worker EXCEPT ![sensor] = "open"]
            /\ sec_capture_threads' = sec_capture_threads \cup {sensor}
            /\ sec_estado_sensores' = [sec_estado_sensores EXCEPT ![sensor] = TRUE]
    /\ UNCHANGED <<notSecVars, sec_pc>>

\* _capture_and_record up to the loop: the camera opens, the first frame is
\* read and the recording starts, or one of the three fails and the thread
\* returns.
SecWorkerOpens(sensor) ==
    /\ sec_worker[sensor] = "open"
    /\ \/ sec_worker' = [sec_worker EXCEPT ![sensor] = "loop"]
       \/ sec_worker' = [sec_worker EXCEPT ![sensor] = "dead"]
    /\ UNCHANGED <<notSecVars, sec_estado_sensores, sec_capture_threads, sec_should_stop,
                   sec_pc>>

\* _capture_and_record: the loop sees should_stop_capture.get(sensor, False).
SecWorkerLoopExit(sensor) ==
    /\ sec_worker[sensor] = "loop"
    /\ GetOrFalse(sec_should_stop, sensor)
    /\ sec_worker' = [sec_worker EXCEPT ![sensor] = "dead"]
    /\ UNCHANGED <<notSecVars, sec_estado_sensores, sec_capture_threads, sec_should_stop,
                   sec_pc>>

\* stop_all_recordings: the flags are set for every registered sensor.
SecStopSignal ==
    /\ sec_pc = "idle"
    /\ sec_capture_threads # {}
    /\ sec_should_stop' = [sensor \in (DOMAIN sec_should_stop) \cup sec_capture_threads |->
                              IF sensor \in sec_capture_threads
                              THEN TRUE ELSE sec_should_stop[sensor]]
    /\ sec_pc' = "join"
    /\ UNCHANGED <<notSecVars, sec_estado_sensores, sec_capture_threads, sec_worker>>

\* stop_all_recordings: every join(timeout=2.0) has returned and
\* estado_sensores[sensor] = False was set; the registries are cleared.
SecStopFinish ==
    /\ sec_pc = "join"
    /\ sec_estado_sensores' = [sensor \in AlertSensors |->
                                  IF sensor \in sec_capture_threads
                                  THEN FALSE ELSE sec_estado_sensores[sensor]]
    /\ sec_capture_threads' = {}
    /\ sec_should_stop' = EmptyDict
    /\ sec_pc' = "idle"
    /\ UNCHANGED <<notSecVars, sec_worker>>

SecNext ==
    \/ \E sensor \in AlertSensors : SecStartCameraRecording(sensor)
    \/ \E sensor \in AlertSensors : SecWorkerOpens(sensor)
    \/ \E sensor \in AlertSensors : SecWorkerLoopExit(sensor)
    \/ SecStopSignal
    \/ SecStopFinish

SecSpec == Init /\ [][SecNext]_vars

----------------------------------------------------------------------------
\* grabacion.Grabacion, statement by statement, as SS.py uses it: the thread
\* hilo calls start_recording, the main thread calls stop_recording, and
\* neither holds a lock.

\* start_recording: if cam_index in self.captures: return
GrabStartCheck(cam) ==
    /\ grab_spc = "idle"
    /\ grab_opened < MaxSessions
    /\ IF cam \in DOMAIN grab_captures
       THEN UNCHANGED <<grab_spc, grab_scam>>
       ELSE /\ grab_spc' = "open"
            /\ grab_scam' = cam
    /\ UNCHANGED <<notGrabVars, grab_captures, grab_writers, grab_opened, grab_tpc,
                   grab_tcam>>

\* cv2.VideoCapture(cam_index): opened, or RuntimeError; then the VideoWriter.
GrabStartOpen ==
    /\ grab_spc = "open"
    /\ \/ /\ grab_opened' = grab_opened + 1
          /\ grab_spc' = "reg_cap"
          /\ UNCHANGED grab_scam
       \/ /\ grab_spc' = "idle"
          /\ grab_scam' = 0
          /\ UNCHANGED grab_opened
    /\ UNCHANGED <<notGrabVars, grab_captures, grab_writers, grab_tpc, grab_tcam>>

\* self.captures[cam_index] = cap
GrabStartRegCap ==
    /\ grab_spc = "reg_cap"
    /\ grab_captures' = Put(grab_captures, grab_scam, grab_opened)
    /\ grab_spc' = "reg_wr"
    /\ UNCHANGED <<notGrabVars, grab_writers, grab_opened, grab_scam, grab_tpc, grab_tcam>>

\* self.writers[cam_index] = out; the loop thread is started; return
GrabStartRegWr ==
    /\ grab_spc = "reg_wr"
    /\ grab_writers' = Put(grab_writers, grab_scam, grab_opened)
    /\ grab_spc' = "idle"
    /\ grab_scam' = 0
    /\ UNCHANGED <<notGrabVars, grab_captures, grab_opened, grab_tpc, grab_tcam>>

\* stop_recording: if cam_index not in self.captures: return
GrabStopCheck(cam) ==
    /\ grab_tpc = "idle"
    /\ IF cam \notin DOMAIN grab_captures
       THEN UNCHANGED <<grab_tpc, grab_tcam>>
       ELSE /\ grab_tpc' = "release"
            /\ grab_tcam' = cam
    /\ UNCHANGED <<notGrabVars, grab_captures, grab_writers, grab_opened, grab_spc,
                   grab_scam>>

\* self.captures[cam_index].release(); self.writers[cam_index].release():
\* a KeyError when the writer is not registered yet leaves stop_recording.
GrabStopRelease ==
    /\ grab_tpc = "release"
    /\ IF grab_tcam \in DOMAIN grab_writers
       THEN /\ grab_tpc' = "del_cap"
            /\ UNCHANGED grab_tcam
       ELSE /\ grab_tpc' = "idle"
            /\ grab_tcam' = 0
    /\ UNCHANGED <<notGrabVars, grab_captures, grab_writers, grab_opened, grab_spc,
                   grab_scam>>

\* del self.captures[cam_index]
GrabStopDelCap ==
    /\ grab_tpc = "del_cap"
    /\ grab_captures' = Del(grab_captures, grab_tcam)
    /\ grab_tpc' = "del_wr"
    /\ UNCHANGED <<notGrabVars, grab_writers, grab_opened, grab_spc, grab_scam, grab_tcam>>

\* del self.writers[cam_index]; return
GrabStopDelWr ==
    /\ grab_tpc = "del_wr"
    /\ grab_writers' = Del(grab_writers, grab_tcam)
    /\ grab_tpc' = "idle"
    /\ grab_tcam' = 0
    /\ UNCHANGED <<notGrabVars, grab_captures, grab_opened, grab_spc, grab_scam>>

GrabNext ==
    \/ \E cam \in Cameras : GrabStartCheck(cam)
    \/ GrabStartOpen
    \/ GrabStartRegCap
    \/ GrabStartRegWr
    \/ \E cam \in Cameras : GrabStopCheck(cam)
    \/ GrabStopRelease
    \/ GrabStopDelCap
    \/ GrabStopDelWr

GrabSpec == Init /\ [][GrabNext]_vars

----------------------------------------------------------------------------
\* sistema de seguridad/main.py: escuchar_arduino with a video device always
\* detected (has_devices() is True and list_devices() is not empty).

\* estado = mensaje.split("=")[1]
AlarmEstado(m) ==
    IF m = "alarmaActiva=1" THEN "1" ELSE IF m = "alarmaActiva=0" THEN "0" ELSE "?"

\* What the alarm messages amount to after m: a deactivation of either form,
\* or an activation, which follows a deactivation or does not.
AlarmHistoryAfter(m) ==
    IF m \in {"alarmaActiva=0", "Sistema DESACTIVADO"} THEN "deactivated"
    ELSE IF m = "alarmaActiva=1"
    THEN (IF alarm_history \in {"deactivated", "reactivated"}
          THEN "reactivated" ELSE "activated")
    ELSE alarm_history

\* One line handled by escuchar_arduino: an alarmaActiva line that changes
\* last_alarm_state starts the cameras (record_cameras(devices[:1]), unless
\* some are running) or stops them (stop_cameras); the DESACTIVADO message
\* stops them; any other line is only printed.
AlarmMessage(m) ==
    /\ mensaje' = m
    /\ alarm_history' = AlarmHistoryAfter(m)
    /\ IF m \in {"alarmaActiva=1", "alarmaActiva=0", "alarmaActiva=?"}
       THEN IF AlarmEstado(m) # last_alarm_state
            THEN /\ last_alarm_state' = AlarmEstado(m)
                 /\ IF AlarmEstado(m) = "1"
                    THEN IF CAMERA_CONTROLLERS = <<>>
                         THEN /\ controllers_made < MaxAlarmStarts
                              /\ controllers_made' = controllers_made + 1
                              /\ CAMERA_CONTROLLERS' = <<controllers_made + 1>>
                         ELSE UNCHANGED <<CAMERA_CONTROLLERS, controllers_made>>
                    ELSE IF AlarmEstado(m) = "0"
                    THEN /\ CAMERA_CONTROLLERS' = <<>>
                         /\ UNCHANGED controllers_made
                    ELSE UNCHANGED <<CAMERA_CONTROLLERS, controllers_made>>
            ELSE UNCHANGED <<last_alarm_state, CAMERA_CONTROLLERS, controllers_made>>
       ELSE IF m = "Sistema DESACTIVADO"
       THEN /\ CAMERA_CONTROLLERS' = <<>>
            /\ UNCHANGED <<last_alarm_state, controllers_made>>
       ELSE UNCHANGED <<last_alarm_state, CAMERA_CONTROLLERS, controllers_made>>
    /\ UNCHANGED notAlmVars

AlarmNext == \E m \in AlarmMessages : AlarmMessage(m)

AlarmSpec == Init /\ [][AlarmNext]_vars

----------------------------------------------------------------------------
\* CameraRecorder._capture_and_record's frame loop and
\* CameraRecorder.stop_all_recordings -> RecordingManager.stop_all ->
\* stop_recording, statement by statement. No lock is held anywhere.

\* while not self.should_stop_capture.get(sensor, False): ret, frame =
\* cap.read(); a failed read sleeps and continues, a frame goes to write_frame.
\* A True flag ends the loop and the worker.
WfLoop(sensor) ==
    /\ wf_wpc[sensor] = "loop"
    /\ IF wf_should_stop[sensor]
       THEN wf_wpc' = [wf_wpc EXCEPT ![sensor] = "done"]
       ELSE \/ wf_wpc' = [wf_wpc EXCEPT ![sensor] = "wf_check"]
            \/ UNCHANGED wf_wpc
    /\ UNCHANGED <<wf_writers, wf_released, wf_capture_threads, wf_should_stop, wf_spc, wf_keys,
                   wf_source>>
    /\ UNCHANGED notWfVars

\* write_frame: if source_name in self.writers
WfWriteCheck(sensor) ==
    /\ wf_wpc[sensor] = "wf_check"
    /\ wf_wpc' = [wf_wpc EXCEPT ![sensor] =
                     IF sensor \in wf_writers THEN "wf_write" ELSE "loop"]
    /\ UNCHANGED <<wf_writers, wf_released, wf_capture_threads, wf_should_stop, wf_spc, wf_keys,
                   wf_source>>
    /\ UNCHANGED notWfVars

\* write_frame: self.writers[source_name].write(frame), a KeyError being
\* caught and logged; back to the loop condition after the sleep.
WfWrite(sensor) ==
    /\ wf_wpc[sensor] = "wf_write"
    /\ wf_wpc' = [wf_wpc EXCEPT ![sensor] = "loop"]
    /\ UNCHANGED <<wf_writers, wf_released, wf_capture_threads, wf_should_stop, wf_spc, wf_keys,
                   wf_source>>
    /\ UNCHANGED notWfVars

\* stop_all_recordings: capture_threads is not empty (else it returns at
\* once); set the flag of every sensor in it.
WfStopSignal ==
    /\ wf_spc = "idle"
    /\ wf_capture_threads # {}
    /\ wf_should_stop' = [z \in Zones |-> z \in wf_capture_threads]
    /\ wf_spc' = "sa_join"
    /\ UNCHANGED <<wf_writers, wf_released, wf_capture_threads, wf_wpc, wf_keys, wf_source>>
    /\ UNCHANGED notWfVars

\* The loop of thread.join(timeout=2.0): each join returns when its worker
\* has ended or when the 2 s have passed (cap.read() may block for longer).
\* Then stop_all: the keys of writers are listed, or it returns when there
\* are none.
WfJoinAndList ==
    /\ wf_spc = "sa_join"
    /\ wf_keys' = wf_writers
    /\ wf_spc' = IF wf_writers = {} THEN "sa_clear" ELSE "sa_next"
    /\ UNCHANGED <<wf_writers, wf_released, wf_capture_threads, wf_should_stop, wf_wpc, wf_source>>
    /\ UNCHANGED notWfVars

\* stop_all's for loop takes the next key; stop_recording: if source_name
\* not in self.writers: return False.
WfStopCheck(source_name) ==
    /\ wf_spc = "sa_next"
    /\ source_name \in wf_keys
    /\ wf_keys' = wf_keys \ {source_name}
    /\ wf_source' = source_name
    /\ wf_spc' = IF source_name \in wf_writers THEN "st_release"
                 ELSE IF wf_keys' = {} THEN "sa_clear" ELSE "sa_next"
    /\ UNCHANGED <<wf_writers, wf_released, wf_capture_threads, wf_should_stop, wf_wpc>>
    /\ UNCHANGED notWfVars

\* stop_recording: self.writers[source_name].release(); when it raises, the
\* del is skipped and False returned.
WfStopRelease ==
    /\ wf_spc = "st_release"
    /\ \/ /\ wf_released' = wf_released \cup {wf_source}
          /\ wf_spc' = "st_del"
       \/ /\ wf_spc' = IF wf_keys = {} THEN "sa_clear" ELSE "sa_next"
          /\ UNCHANGED wf_released
    /\ UNCHANGED <<wf_writers, wf_capture_threads, wf_should_stop, wf_wpc, wf_keys, wf_source>>
    /\ UNCHANGED notWfVars

\* stop_recording: del self.writers[source_name]; return True.
WfStopDel ==
    /\ wf_spc = "st_del"
    /\ wf_writers' = wf_writers \ {wf_source}
    /\ wf_spc' = IF wf_keys = {} THEN "sa_clear" ELSE "sa_next"
    /\ UNCHANGED <<wf_released, wf_capture_threads, wf_should_stop, wf_wpc, wf_keys, wf_source>>
    /\ UNCHANGED notWfVars

\* stop_all_recordings: capture_threads and should_stop_capture are cleared
\* (a worker then reads its flag as False again) and the call returns.
WfStopClear ==
    /\ wf_spc = "sa_clear"
    /\ wf_spc' = "idle"
    /\ wf_capture_threads' = {}
    /\ wf_should_stop' = [z \in Zones |-> FALSE]
    /\ UNCHANGED <<wf_writers, wf_released, wf_wpc, wf_keys, wf_source>>
    /\ UNCHANGED notWfVars

WfNext ==
    \/ \E sensor \in Zones : WfLoop(sensor)
    \/ \E sensor \in Zones : WfWriteCheck(sensor)
    \/ \E sensor \in Zones : WfWrite(sensor)
    \/ WfStopSignal
    \/ WfJoinAndList
    \/ \E source_name \in Zones : WfStopCheck(source_name)
    \/ WfStopRelease
    \/ WfStopDel
    \/ WfStopClear

WfSpec == Init /\ [][WfNext]_vars

----------------------------------------------------------------------------
\* SS.py: escuchar_arduino / procesar_evento on grabacion.Grabacion.

\* A line "SENSOR:<sensor>:<estado>": procesar_evento(sensor, estado) and
\* Grabacion.start_recording, whose RuntimeError on a camera that does not
\* open is not caught by escuchar_arduino's "except ValueError".
procesar_evento(sensor, estado) ==
    /\ hilo = "alive"
    /\ IF /\ sensor \in DOMAIN SS_SENSOR_TO_CAMERA
          /\ estado = "1"
          /\ estado_sensores[sensor] # "1"
       THEN /\ estado_sensores' = [estado_sensores EXCEPT ![sensor] = "1"]
            /\ IF SS_SENSOR_TO_CAMERA[sensor] \in captures
               THEN /\ ss_last' = "already_recording"
                    /\ UNCHANGED <<captures, hilo>>
               ELSE \/ /\ captures' = captures \cup {SS_SENSOR_TO_CAMERA[sensor]}
                       /\ ss_last' = "started"
                       /\ UNCHANGED hilo
                    \/ /\ ss_last' = "open_failed"
                       /\ hilo' = "dead"
                       /\ UNCHANGED captures
       ELSE /\ ss_last' = "ignored"
            /\ UNCHANGED <<estado_sensores, captures, hilo>>
    /\ UNCHANGED <<camVars, ctlVars, rmVars, lsnVars, serVars, utilVars>>

\* A "SENSOR:" line that does not split into three parts: ValueError, caught.
MalformedLine ==
    /\ hilo = "alive"
    /\ ss_last' = "malformed"
    /\ UNCHANGED <<camVars, ctlVars, rmVars, lsnVars, serVars, utilVars, estado_sensores, captures, hilo>>

\* A line with bytes that are not valid UTF-8: readline().decode("utf-8") is
\* strict and stands before the try, so UnicodeDecodeError leaves
\* escuchar_arduino and the thread ends.
InvalidBytesLine ==
    /\ hilo = "alive"
    /\ ss_last' = "decode_error"
    /\ hilo' = "dead"
    /\ UNCHANGED <<camVars, ctlVars, rmVars, lsnVars, serVars, utilVars, estado_sensores, captures>>

\* Main thread, command "desactivado": Grabacion.stop_recording for every
\* sensor's camera and estado_sensores[sensor] = "0".
desactivado ==
    /\ captures' = captures \ {SS_SENSOR_TO_CAMERA[sensor] : sensor \in DOMAIN SS_SENSOR_TO_CAMERA}
    /\ estado_sensores' = [sensor \in DOMAIN SS_SENSOR_TO_CAMERA |-> "0"]
    /\ UNCHANGED <<camVars, ctlVars, rmVars, lsnVars, serVars, utilVars, hilo, ss_last>>

SSNext ==
    \/ \E sensor \in (DOMAIN SS_SENSOR_TO_CAMERA) \cup {"otro"} :
          \E estado \in {"0", "1"} : procesar_evento(sensor, estado)
    \/ MalformedLine
    \/ InvalidBytesLine
    \/ desactivado

SSSpec == Init /\ [][SSNext]_vars

----------------------------------------------------------------------------
\* Properties of Spec (CameraRecorder / RecordingManager / SecuritySystem).

\* The live capture workers of zone z.
LiveWorkers(z) == {t \in Threads : IsAlive(t) /\ tSensor[t] = z}

\* C1: in every reachable state every zone has at most one live capture
\* worker, also after a join in stop_all_recordings timed out.
C1_AtMostOneWorkerPerZone ==
    \A z \in Zones : Cardinality(LiveWorkers(z)) <= 1

\* C2: a worker that stop_all_recordings signalled while it was still starting
\* sees the stop request when it reaches its capture loop, so it does not stay
\* recording.
C2_StopReachesStartingWorker ==
    \A t \in Threads :
        (sig[t] = "starting" /\ tpc[t] = "loop")
            => GetOrFalse(should_stop_capture, tSensor[t])

\* C3: when stop_all_recordings, called with at least one Active zone, returns,
\* no zone is recording and RecordingManager counts no recording.
C3_StopAllLeavesNothingRecording ==
    [][\A c \in Callers :
          (ReleaseCaptures(c) /\ hadActive[c])
              => /\ \A z \in Zones : ~is_recording(z)'
                 /\ get_recording_count' = 0]_vars

\* C4: when a session start fails (open, first read or writer), no registry
\* holds an entry for the zone afterwards.
C4_FailedStartLeavesNoEntry ==
    [][\A t \in Threads :
          (Starting(t) /\ tpc'[t] = "done")
              => /\ tSensor[t] \notin DOMAIN capture_threads'
                 /\ tSensor[t] \notin DOMAIN active_captures'
                 /\ tSensor[t] \notin DOMAIN should_stop_capture'
                 /\ tSensor[t] \notin DOMAIN writers']_vars

\* Worker u holds an Active session: capture opened, writer registered by u,
\* capture loop reached.
HoldsSession(u) ==
    /\ tpc[u] = "loop"
    /\ capOpen[u]
    /\ tSensor[u] \in DOMAIN writers
    /\ writers[tSensor[u]] = u

\* C5: when a worker tries to open a camera on which another zone holds an
\* Active session, the open fails, the worker ends without capture or writer,
\* and worker, capture and writer of the holding zone are unchanged.
C5_SecondZoneOnBusyCameraFails ==
    [][\A t \in Threads : \A u \in Threads :
          (/\ OpenCamera(t)
           /\ u # t
           /\ tCam[u] = tCam[t]
           /\ tSensor[u] # tSensor[t]
           /\ HoldsSession(u))
              => /\ tpc'[t] = "done"
                 /\ ~capOpen'[t]
                 /\ writers' = writers
                 /\ active_captures' = active_captures
                 /\ HoldsSession(u)']_vars

\* C5 witness: both zones share a camera, ENTRADA holds an Active session and
\* the worker started for SALIDA has ended with nothing registered for SALIDA.
C5_Witness ==
    /\ SENSOR_TO_CAMERA["ENTRADA"] = SENSOR_TO_CAMERA["SALIDA"]
    /\ Active("ENTRADA")
    /\ HoldsSession(capture_threads["ENTRADA"])
    /\ "SALIDA" \in DOMAIN capture_threads
    /\ tpc[capture_threads["SALIDA"]] = "done"
    /\ "SALIDA" \notin DOMAIN writers
    /\ "SALIDA" \notin DOMAIN active_captures

\* C6: consecutive alerts for one zone cause at most one session start attempt.
C6_OneStartPerAlertBurst ==
    \A z \in Zones : consecStarts[z] <= 1

\* C7: an alert for a zone that has a live session (a worker recording in its
\* capture loop) is a no-op: start_recording returns without creating a thread
\* and leaves flag, captures and writers as they are.
C7_AlertOnLiveSessionIsNoOp ==
    [][\A z \in Zones :
          (OnSensorAlert(z) /\ \E u \in LiveWorkers(z) : HoldsSession(u))
              => /\ cpc' = cpc
                 /\ UNCHANGED <<should_stop_capture, active_captures,
                                writers, tpc, capture_threads>>]_vars

\* C10: in every status report the active-recording count equals the number
\* of zones reported as recording.
C10_SnapshotConsistent ==
    [][StatusZones => report = Cardinality(ReportedRecording)]_vars

\* C12: while handling a deactivation line the listener thread only signals
\* the stop flags; it never sits in a join on a capture worker that is still
\* running.
C12_ListenerNeverJoinsWorker ==
    ~(/\ cpc["listener"] = "sa_join"
      /\ \E z \in DOMAIN capture_threads : IsAlive(capture_threads[z]))

\* C13: a worker that stop_all_recordings signalled while it was in its capture
\* loop reads the stop request at its next loop-condition check, also after
\* the join timed out and the registries were cleared.
C13_StopReachesActiveWorker ==
    \A t \in Threads :
        (sig[t] = "active" /\ tpc[t] = "loop")
            => GetOrFalse(should_stop_capture, tSensor[t])

\* The operator thread is inside stop_all_recordings.
OperatorStopping == cpc["operator"] \in {"sa_join", "sa_clear", "sa_release"}

\* C16: the loss of the serial transport ends only the listener thread: the
\* step changes nothing else, the idle operator can still ask for a status
\* report and for stop-all, and a zone that is Active stays Active unless the
\* operator's stop_all_recordings is running.
C16_TransportLossEndsOnlyListener ==
    /\ [](cpc["listener"] = "exited" /\ cpc["operator"] = "idle"
            => ENABLED StatusCount /\ ENABLED StopAllSignal("operator"))
    /\ [][/\ ListenSerialError =>
               /\ cpc'["operator"] = cpc["operator"]
               /\ \A z \in Zones : Active(z) => Active(z)'
          /\ \A z \in Zones :
               (cpc["listener"] = "exited" /\ Active(z) /\ ~Active(z)')
                   => OperatorStopping]_vars

\* C16 witness: the listener has ended, a zone is still Active and the operator
\* is being served a status report.
C16_Witness ==
    /\ cpc["listener"] = "exited"
    /\ cpc["operator"] = "st_zones"
    /\ \E z \in Zones : Active(z)

----------------------------------------------------------------------------
\* Properties of CtlSpec (VideoDeviceRecordingController / VideoDeviceRecorder).

\* C8: when stop_recording ends through the forced-termination path, the
\* recorder is idle and no exception has escaped.
C8_ForcedStopEndsIdle ==
    [][\A c \in Controllers :
          (rpc[c] = "force_wait" /\ rpc'[c] = "done")
              => /\ ~recorder_is_recording'[c]
                 /\ process'[c] = "None"
                 /\ last_error'[c] = "None"]_vars

\* C25: when VideoDeviceRecordingController.stop() returns, the recording
\* thread is no longer alive and is_recording() is False.
C25_StopReturnsAfterWorkerEnded ==
    [][\A c \in Controllers :
          (JoinReturns /\ joining = c)
              => /\ ~ThreadAlive(c)'
                 /\ ~controller_is_recording(c)']_vars

\* C30: a stop() issued while the worker is still inside start_recording is
\* not lost: the event stays set, so once start_recording has returned the
\* wait returns at once and the worker goes on to stop_recording (or ends,
\* when the start failed) instead of staying in the wait.
C30_StopDuringStartIsNotLost ==
    \A c \in Controllers :
        (stop_event[c] /\ rpc[c] = "start") ~> (rpc[c] \notin {"start", "wait"})

\* C30 witness: stop() has set the event and is joining while the worker has
\* not yet returned from start_recording.
C30_Witness ==
    \E c \in Controllers :
        /\ stop_event[c]
        /\ rpc[c] = "start"
        /\ joining = c

\* C34: a recorder never has two live encoders: start_recording spawns only
\* when the is_recording flag is False and no encoder of the recorder is
\* running, and on a recorder that is already recording it returns False
\* without spawning.
C34_OneEncoderPerRecorder ==
    [][\A c \in Controllers :
          RunStartRecording(c) =>
              /\ (rpc'[c] = "wait") =>
                     (~recorder_is_recording[c] /\ process[c] # "running")
              /\ recorder_is_recording[c] =>
                     (rpc'[c] = "done" /\ process'[c] = process[c])]_vars

\* C34 witness: a start() on a recorder whose flag was still set and whose
\* encoder was still running has returned without spawning.
C34_Witness ==
    \E c \in Controllers :
        /\ rpc[c] = "done"
        /\ recorder_is_recording[c]
        /\ process[c] = "running"
        /\ last_error[c] = "None"

\* C15: two distinct recording sessions never have the same output path: no
\* two encoder processes running at the same time write to one file.
C15_SessionsHaveDistinctFiles ==
    \A c \in Controllers : \A d \in Controllers :
        (c # d /\ process[c] = "running" /\ process[d] = "running")
            => output_file(c) # output_file(d)

\* A later start() can begin a new recording: the worker has ended and
\* start_recording would pass its is_recording guard.
CanStartAgain(c) == ~ThreadAlive(c) /\ ~recorder_is_recording[c]

\* C9: a controller whose worker thread has ended can begin a new recording.
C9_EndedWorkerCanRestart ==
    \A c \in Controllers : rpc[c] = "done" => CanStartAgain(c)

\* Once a controller's worker has ended with the recorder still flagged as
\* recording, no later step clears the flag: every later start() fails.
StuckStaysStuck ==
    [][\A c \in Controllers :
          (rpc[c] = "done" /\ recorder_is_recording[c])
              => recorder_is_recording'[c]]_vars

----------------------------------------------------------------------------
\* Properties of RmSpec (RecordingManager under concurrent callers).

\* C11: check-and-register is atomic: a start_recording call never registers
\* its writer for a source that already has a registered writer (which would
\* make two calls return True and leave the overwritten writer unreleased).
C11_RegisterNeverOverwrites ==
    [][\A w \in RmCallers :
          RmRegister(w) => rmSrc[w] \notin DOMAIN writers]_vars

C32_StopAlwaysRemoves ==
    [][\A w \in RmCallers :
          RmStopRelease(w) => rmSrc[w] \notin DOMAIN writers']_vars

----------------------------------------------------------------------------
\* Properties of ToggleSpec (RecordingManager.toggle_recording).

\* C26: toggle_recording(s, frame) returns True exactly when s is being
\* recorded when it returns; it stops and returns False when s was recording;
\* when s was idle it changes the registry only by starting s, and only if a
\* frame is given.
C26_ToggleReturnsRecordingState ==
    [][\A w \in RmCallers : \A s \in Zones : \A frame \in BOOLEAN :
          toggle_recording(w, s, frame) =>
              /\ (rmResult'[w] = "toggle_True") <=> (s \in DOMAIN writers')
              /\ (s \in DOMAIN writers) =>
                     /\ rmResult'[w] = "toggle_False"
                     /\ writers' = Del(writers, s)
              /\ (s \notin DOMAIN writers /\ frame) =>
                     \/ writers' = Put(writers, s, w)
                     \/ UNCHANGED writers
              /\ (s \notin DOMAIN writers /\ ~frame) =>
                     /\ rmResult'[w] = "toggle_False"
                     /\ UNCHANGED <<writers, recording_config>>]_vars

----------------------------------------------------------------------------
\* Properties of ListenSpec (ArduinoListener.listen).

\* C21: a line that is neither an alert nor a deactivation is not dispatched:
\* no callback is called and capture_threads, should_stop_capture,
\* active_captures and writers are unchanged.
C21_MalformedLineChangesNothing ==
    [][(/\ ReadLine(linea')
        /\ ~Contains(linea', "ALERTA:")
        /\ ~Contains(linea', "alarmaActiva=0")
        /\ ~Contains(linea', "DESACTIVADO"))
              => /\ event'.kind = "Ignored"
                 /\ UNCHANGED <<capture_threads, should_stop_capture,
                                active_captures, writers, tpc, cpc>>]_vars

\* C21 witness: the line read last carries no marker and was not dispatched.
C21_Witness ==
    /\ linea = <<"x", "entrada", "desactivado">>
    /\ event.kind = "Ignored"

\* Reconnect attempts made so far: connections opened after the first one.
Reconnects == arduino_opens - 1

\* C17: the listener ends its loop on a transport failure only after it has
\* made at least one reconnect attempt.
C17_ReconnectsBeforeGivingUp ==
    [][ListenSerialError => Reconnects' >= 1]_vars

\* The known zone keywords that occur in line l (case-insensitively, as the
\* listener looks for them).
ZoneKeywordsIn(l) == {i \in DOMAIN sensors : Contains(UpperLine(l), sensors[i])}

\* C19: a line is dispatched as an Alert only if it contains the alert marker
\* and exactly one of the known zone keywords.
C19_AlertNeedsExactlyOneZone ==
    [][\A l \in Lines :
          (ReadLine(l) /\ event'.kind = "Alert")
              => /\ Contains(l, "ALERTA:")
                 /\ Cardinality(ZoneKeywordsIn(l)) = 1]_vars

\* Rule 1: the line qualifies as an Alert.
QualifiesAsAlert(l) ==
    Contains(l, "ALERTA:") /\ Cardinality(ZoneKeywordsIn(l)) = 1

\* C20: every line that does not qualify as an Alert and contains the
\* deactivated marker or the alarm-active=0 token is dispatched as Deactivate.
C20_DeactivateUnlessAlert ==
    [][\A l \in Lines :
          (/\ ReadLine(l)
           /\ ~QualifiesAsAlert(l)
           /\ (Contains(l, "alarmaActiva=0") \/ Contains(l, "DESACTIVADO")))
              => event'.kind = "Deactivate"]_vars

----------------------------------------------------------------------------
\* Properties of DetSpec (VideoDeviceDetection).

\* C27: once a list is cached, get_devices returns it without running the
\* detection again, whatever is attached by then and also when the list is
\* the empty one; clear_cache empties the cache, and a get_devices call that
\* finds it empty runs the detection and caches what it returns.
C27_DetectionIsCached ==
    [][/\ (get_devices /\ cache # {})
            => (devices' = cache /\ ~scanned' /\ cache' = cache)
       /\ clear_cache => cache' = {}
       /\ (get_devices /\ cache = {})
            => (scanned' /\ cache' = devices' /\ devices' \in {{attached}, {{}}})]_vars

\* C27 witness: a call has returned the cached empty list without scanning
\* while both devices are attached.
C27_Witness ==
    /\ cache = {{}}
    /\ devices = {{}}
    /\ ~scanned
    /\ attached = DeviceNames

----------------------------------------------------------------------------
\* Properties of CfgSpec (CameraConfigManager).

\* C28: validate_config_with_devices returns True exactly when every camera
\* index the mapping assigns to a zone is the index of an available device.
C28_ValidIffAllIndicesAvailable ==
    config_valid # "None" =>
        ((config_valid = "True") <=>
            \A z \in DOMAIN loaded_config :
                \E p \in device_map : p[1] = loaded_config[z])

\* C28 witness: a mapping with one zone on an available device and one zone on
\* a missing one has been rejected.
C28_Witness ==
    /\ config_valid = "False"
    /\ DOMAIN loaded_config = Zones
    /\ \E z \in Zones : \E p \in device_map : p[1] = loaded_config[z]
    /\ \E z \in Zones : \A p \in device_map : p[1] # loaded_config[z]

----------------------------------------------------------------------------
\* Properties of ClipSpec (VideoFileRecorder).

\* C29: when wait_for_all_clips returns, every clip created before the call
\* has finished and the list of active clip threads is empty.
C29_WaitReturnsAfterAllClips ==
    [][WaitClear => /\ \A k \in before : clip'[k] = "finished"
                    /\ active_threads' = <<>>]_vars

\* C29 witness: a wait called with two clips in progress or done has returned.
C29_Witness ==
    /\ wpc = "idle"
    /\ Cardinality(before) = 2
    /\ active_threads = <<>>
    /\ \A k \in before : clip[k] = "finished"

----------------------------------------------------------------------------
\* Properties of SecSpec (SecuritySystem.py).

\* C31: once an alert or a deactivation has been handled, a sensor whose
\* status flag is True has a live capture worker.
C31_StatusFlagIsTruthful ==
    sec_pc = "idle" =>
        \A sensor \in AlertSensors : sec_estado_sensores[sensor] => SecLive(sensor)

----------------------------------------------------------------------------
\* Properties of GrabSpec (grabacion.Grabacion).

\* C33: between operations captures and writers have the same camera indices,
\* and each camera's capture and writer belong to the same session.
C33_CapturesMatchWriters ==
    (grab_spc = "idle" /\ grab_tpc = "idle") => grab_captures = grab_writers

----------------------------------------------------------------------------
\* Properties of AlarmSpec (sistema de seguridad/main.py).

\* C35: when the most recent alarm message is an activation that follows a
\* deactivation of either form, cameras are recording.
C35_ReactivationRecords ==
    alarm_history = "reactivated" => CAMERA_CONTROLLERS # <<>>

----------------------------------------------------------------------------
\* Properties of SerialSpec (line framing).

\* C22: every line handed to classification is the line the device sent,
\* whole: never a part of it, however its bytes were spread over time.
C22_LinesDeliveredWhole ==
    [][(SerialReadline /\ DecodedLine # <<>>) => DecodedLine = Decode(sentLine)]_vars

----------------------------------------------------------------------------
\* Properties of SSSpec (SS.py).

\* C18: a camera that fails to open while an alert is handled does not end
\* the thread that reads the Arduino's lines.
C18_OpenFailureKeepsListening ==
    ss_last = "open_failed" => hilo = "alive"

\* C23: a line with invalid byte sequences does not end the thread that
\* reads the Arduino's lines.
C23_InvalidBytesKeepListening ==
    ss_last = "decode_error" => hilo = "alive"

\* C36: a sensor marked "1" has its camera recording in Grabacion.
C36_SensorStateMatchesRecorder ==
    \A sensor \in DOMAIN SS_SENSOR_TO_CAMERA :
        estado_sensores[sensor] = "1" => SS_SENSOR_TO_CAMERA[sensor] \in captures

\* C37: write_frame never calls write on a VideoWriter that stop_recording
\* has already released, whatever the interleaving of a capture worker with
\* stop_all_recordings.
C37_NoWriteAfterRelease ==
    [][\A sensor \in Zones :
          WfWrite(sensor) => ~(sensor \in wf_writers /\ sensor \in wf_released)]_vars

\* C38: a start_recording(s) call made while recording_config[s] is False
\* returns False at its checks, creates no writer and leaves writers
\* unchanged.
C38_DisabledSourceNotStarted ==
    [][\A w \in RmCallers : \A s \in Zones :
          (RmStartCheck(w, s) /\ s \in DOMAIN recording_config /\ ~recording_config[s])
             => /\ rmResult'[w] = "start_False"
                /\ rmpc'[w] = "idle"
                /\ rmFiles'[w] = 0
                /\ writers' = writers]_vars

\* Every source is disabled, nothing is recording and every caller's last
\* start_recording was refused.
C38_Witness ==
    /\ \A s \in Zones : s \in DOMAIN recording_config /\ ~recording_config[s]
    /\ writers = EmptyDict
    /\ \A w \in RmCallers : rmpc[w] = "idle" /\ rmResult[w] = "start_False"

TypeOK ==
    /\ SENSOR_TO_CAMERA \in [Zones -> Cameras]
    /\ DOMAIN capture_threads \subseteq Zones
    /\ DOMAIN active_captures \subseteq Zones
    /\ DOMAIN should_stop_capture \subseteq Zones
    /\ DOMAIN writers \subseteq Zones
    /\ \A t \in Threads :
          tpc[t] \in {"unborn", "open", "read", "start_rec", "loop", "done"}
    /\ \A c \in Callers :
          cpc[c] \in {"idle", "sr_spawn", "sr_register", "sa_join", "sa_clear",
                      "sa_release", "st_zones", "exited"}
    /\ \A c \in Controllers :
          /\ rpc[c] \in {"unborn", "start", "wait", "stopping", "graceful_wait",
                         "force_wait", "done"}
          /\ process[c] \in {"None", "running", "exited"}
    /\ joining \in {0} \cup Controllers
    /\ DOMAIN recording_config \subseteq Zones
    /\ \A w \in RmCallers :
          /\ rmpc[w] \in {"idle", "sr_create", "sr_register", "st_release"}
          /\ rmSrc[w] \in Zones
          /\ rmFiles[w] \in 0..1
    /\ arduino_opens = 1
    /\ linea \in Lines \cup {<<>>}
    /\ event.kind \in {"None", "Alert", "Unrecognized", "Deactivate", "Ignored"}
    /\ captures \subseteq {0}
    /\ hilo \in {"alive", "dead"}
    /\ sentLine \in WireLines \cup {<<>>}
    /\ alert_rejected \in {"None", "not_configured", "no_device"}
    /\ attached \subseteq DeviceNames
    /\ last_alarm_state \in {"0", "1", "?"}
    /\ Len(CAMERA_CONTROLLERS) <= 1
    /\ controllers_made \in 0..MaxAlarmStarts
    /\ mensaje \in AlarmMessages \cup {"None"}
    /\ alarm_history \in {"none", "activated", "deactivated", "reactivated"}
    /\ DOMAIN grab_captures \subseteq Cameras
    /\ DOMAIN grab_writers \subseteq Cameras
    /\ grab_opened \in 0..MaxSessions
    /\ grab_spc \in {"idle", "open", "reg_cap", "reg_wr"}
    /\ grab_tpc \in {"idle", "release", "del_cap", "del_wr"}
    /\ grab_scam \in Cameras /\ grab_tcam \in Cameras
    /\ sec_estado_sensores \in [AlertSensors -> BOOLEAN]
    /\ sec_capture_threads \subseteq AlertSensors
    /\ DOMAIN sec_should_stop \subseteq AlertSensors
    /\ sec_worker \in [AlertSensors -> {"none", "open", "loop", "dead"}]
    /\ sec_pc \in {"idle", "join"}
    /\ clip \in [Clips -> {"unborn", "running", "finished"}]
    /\ \A i \in DOMAIN active_threads : active_threads[i] \in Clips
    /\ wpc \in {"idle", "join"}
    /\ wi \in 0..(MaxClips + 1)
    /\ before \subseteq Clips
    /\ loaded_config \in LoadedConfigs
    /\ device_map \in DeviceMaps
    /\ config_valid \in {"None", "True", "False"}
    /\ cache \in {{}} \cup {{l} : l \in SUBSET DeviceNames}
    /\ devices \in {{}} \cup {{l} : l \in SUBSET DeviceNames}
    /\ scanned \in BOOLEAN
    /\ Len(tx) + Len(rx) <= MaxWireLen + 1
    /\ wf_writers \subseteq Zones /\ wf_released \subseteq Zones
    /\ wf_capture_threads \subseteq Zones /\ wf_keys \subseteq Zones
    /\ wf_should_stop \in [Zones -> BOOLEAN]
    /\ wf_wpc \in [Zones -> {"loop", "wf_check", "wf_write", "done"}]
    /\ wf_spc \in {"idle", "sa_join", "sa_next", "st_release", "st_del", "sa_clear"}
    /\ wf_source \in Zones

=============================================================================
